---- MODULE Spec2Model ----
(***************************************************************************)
(* A model of the register optimizer (cmd/6g/reg.c), the peephole          *)
(* optimizer (cmd/8g/peep.c) and the symbol/relocation interface           *)
(* (include/link.h) of the Go toolchain back end.                          *)
(*                                                                         *)
(* Bit sets (Bits) are modelled as sets of bit numbers; a Prog chain is a  *)
(* sequence of Prog records linked by their link field; the flow graph is  *)
(* a sequence of Reg records, one per instruction of the chain.            *)
(***************************************************************************)
EXTENDS Integers, Sequences, FiniteSets, TLC

VARIABLES
    pc,        \* position of regopt / peep / the linker driver
    debug,     \* debug['R'], debug['P'], debug['v'], debug['w']
    alphabet,  \* the instructions the front end may emit
    input,     \* the instruction chain handed to regopt or peep
    prog,      \* Prog records, index = identity, chained by link
    reg,       \* flow graph: one Reg (Flow + bit sets) per instruction
    var,       \* var[0..nvar-1]
    nodeopt,   \* Node.opt: head of each storage node's list of Vars
    hasdefer,  \* the function being compiled contains a defer
    arch,      \* nacl, framepointer_enabled
    sets,      \* externs, params, consts, addrs, ivar, ovar, regbits
    region,    \* region[0..nregion-1] as a sequence
    change,    \* the global change counter
    rgnnodes,  \* per region: the nodes paint3 rewrote (history)
    iters,     \* iterations of the pass 3 and pass 4 loops (history)
    peepin,    \* chain handed to the second peep run (history)
    symtab,    \* link context: hash buckets of symbols
    relocs,    \* per symbol: relocation list
    lastsym    \* results of the lookups made so far (history)

vars == <<pc, debug, alphabet, input, prog, reg, var, nodeopt, hasdefer, arch, sets, region, change, rgnnodes,
          iters, peepin, symtab, relocs, lastsym>>

(***************************************************************************)
(* Bounds of the model.                                                    *)
(***************************************************************************)
MaxBody == 5      \* instructions between TEXT and the closing RET/JMP
MaxVars == 3      \* Vars a function may track besides the registers
MaxIter == 3      \* the sweeps of a fixpoint are counted up to this
MaxLinkOps == 4   \* operations on the link context

(***************************************************************************)
(* Program constants.                                                      *)
(***************************************************************************)
NREGVAR == 32
CLOAD == 5
CREF == 5
LOOP == 3
NRGN == 600
NVAR == NREGVAR + MaxVars

\* Register numbers, in the order of regname[]: bit i of the register
\* bitmap is register REG_AX + i, bit 16 + i is REG_X0 + i.
REG_NONE == 0
REG_AX == 1
REG_CX == REG_AX + 1
REG_DX == REG_AX + 2
REG_BX == REG_AX + 3
REG_SP == REG_AX + 4
REG_BP == REG_AX + 5
REG_SI == REG_AX + 6
REG_DI == REG_AX + 7
REG_R15 == REG_AX + 15
REG_X0 == REG_AX + 16
REG_X7 == REG_X0 + 7
REG_X15 == REG_X0 + 15

zbits == {}

Min(S) == CHOOSE x \in S : \A y \in S : x <= y
\* F of the value of v, v being evaluated once
Strict(F(_), v) == CHOOSE y \in {F(x) : x \in {v}} : TRUE

bnum(b) == Min(b)
blsh(i) == {i}

(***************************************************************************)
(* Operands (Addr) and instructions (Prog).                                *)
(***************************************************************************)
zaddr == [type |-> "TYPE_NONE", reg |-> REG_NONE, index |-> REG_NONE,
          name |-> "NAME_NONE", node |-> 0, offset |-> 0, width |-> 0,
          etype |-> "0", dval |-> 0, sym |-> "", branch |-> 0]

Register(r) == [zaddr EXCEPT !.type = "TYPE_REG", !.reg = r]
Const(c) == [zaddr EXCEPT !.type = "TYPE_CONST", !.offset = c]
FConst(d) == [zaddr EXCEPT !.type = "TYPE_FCONST", !.dval = d]
Mem(nm, nd, o, w, et) ==
    [zaddr EXCEPT !.type = "TYPE_MEM", !.name = nm, !.node = nd,
                  !.offset = o, !.width = w, !.etype = et]
AddrOf(a) == [a EXCEPT !.type = "TYPE_ADDR"]
Func(s) == [zaddr EXCEPT !.type = "TYPE_MEM", !.name = "NAME_EXTERN", !.sym = s]
Branch(t) == [zaddr EXCEPT !.type = "TYPE_BRANCH", !.branch = t]

zprog == [as |-> "AXXX", from |-> zaddr, to |-> zaddr, link |-> 0]
Ins(as, f, t) == [zprog EXCEPT !.as = as, !.from = f, !.to = t]

(***************************************************************************)
(* Storage nodes (gc Node) the instructions refer to.                      *)
(***************************************************************************)
NodeX == 1      \* x: int32 local
NodeY == 2      \* y: two-word local (fields at offsets 0 and 4)
NodeF == 3      \* f: float64 local
NodeP == 4      \* p: incoming parameter
NodeRes == 5    \* res: result parameter
NodeG == 6      \* g: package-level variable
NodeZ == 7      \* z: local the front end flagged addrtaken

Node == [n \in NodeX..NodeZ |->
    [class |-> CASE n = NodeP -> "PPARAM"
                 [] n = NodeRes -> "PPARAMOUT"
                 [] n = NodeG -> "PEXTERN"
                 [] OTHER -> "PAUTO",
     addrtaken |-> IF n = NodeZ THEN 1 ELSE 0,
     fat |-> n = NodeY]]

\* regnodes[i]: the pseudo node of register bit i
regnodes(i) == 0 - (i + 1)

(***************************************************************************)
(* proginfo: the instruction table of prog.c, for the opcodes used here.   *)
(* None of these opcodes has implicit register operands, so reguse, regset *)
(* and regindex are empty.                                                 *)
(***************************************************************************)
proginfo(p) ==
    [flags |->
        CASE p.as = "ATEXT" -> {"Pseudo"}
          [] p.as = "ACALL" -> {"RightAddr", "Call", "KillCarry"}
          [] p.as = "AJMP" -> {"Jump", "Break", "KillCarry"}
          [] p.as = "ARET" -> {"Break", "KillCarry"}
          [] p.as = "AUNDEF" -> {"Break", "KillCarry"}
          [] p.as = "ANOP" -> {"LeftRead", "RightWrite"}
          [] p.as \in {"AJNE", "AJCS"} -> {"Cjmp", "UseCarry"}
          [] p.as = "AMOVB" -> {"SizeB", "LeftRead", "RightWrite", "Move"}
          [] p.as = "AMOVW" -> {"SizeW", "LeftRead", "RightWrite", "Move"}
          [] p.as = "AMOVL" -> {"SizeL", "LeftRead", "RightWrite", "Move"}
          [] p.as = "AMOVSS" -> {"SizeF", "LeftRead", "RightWrite", "Move"}
          [] p.as = "AMOVSD" -> {"SizeD", "LeftRead", "RightWrite", "Move"}
          [] p.as = "AMOVAPD" -> {"SizeD", "LeftRead", "RightWrite", "Move"}
          [] p.as \in {"AMOVBLZX", "AMOVWLZX", "AMOVBLSX", "AMOVWLSX"} ->
                {"SizeL", "LeftRead", "RightWrite", "Conv"}
          [] p.as = "ALEAL" -> {"LeftAddr", "RightWrite"}
          [] p.as = "AADDB" ->
                {"SizeB", "LeftRead", "RightRead", "RightWrite", "SetCarry"}
          [] p.as = "AADDW" ->
                {"SizeW", "LeftRead", "RightRead", "RightWrite", "SetCarry"}
          [] p.as = "AADDL" ->
                {"SizeL", "LeftRead", "RightRead", "RightWrite", "SetCarry"}
          [] p.as = "ASUBL" ->
                {"SizeL", "LeftRead", "RightRead", "RightWrite", "SetCarry"}
          [] p.as = "ASUBW" ->
                {"SizeW", "LeftRead", "RightRead", "RightWrite", "SetCarry"}
          [] p.as = "AADCL" ->
                {"SizeL", "LeftRead", "RightRead", "RightWrite", "SetCarry",
                 "UseCarry"}
          [] p.as = "AADDSD" -> {"SizeD", "LeftRead", "RightRead", "RightWrite"}
          [] p.as \in {"AINCL", "ADECL"} -> {"SizeL", "RightRead", "RightWrite"}
          [] p.as \in {"AINCW", "ADECW"} -> {"SizeW", "RightRead", "RightWrite"}
          [] p.as = "ACMPL" -> {"SizeL", "LeftRead", "RightRead", "SetCarry"}
          [] p.as = "AXCHGL" ->
                {"SizeL", "LeftRead", "LeftWrite", "RightRead", "RightWrite"}
          [] p.as = "AVARDEF" -> {"Pseudo", "RightWrite"}
          [] p.as = "AVARKILL" -> {"Pseudo", "RightWrite"}
          [] OTHER -> {},
     reguse |-> {}, regset |-> {}, regindex |-> {}]

\* noreturn: a call to one of the runtime's functions that never return
noreturn(p) ==
    /\ p.as = "ACALL"
    /\ p.to.sym \in {"runtime.panicindex", "runtime.throw"}

(***************************************************************************)
(* The flow graph (flowstart, flowrpo).                                    *)
(***************************************************************************)
RECURSIVE ChainFrom(_, _, _)
\* the ids of the instructions linked from p, in chain order
ChainFrom(pg, p, fuel) ==
    IF p = 0 \/ fuel = 0 THEN <<>>
    ELSE <<p>> \o ChainFrom(pg, pg[p].link, fuel - 1)

Chain(pg) == IF Len(pg) = 0 THEN <<>> ELSE ChainFrom(pg, 1, Len(pg))

SeqIndex(s, x) == CHOOSE i \in 1..Len(s) : s[i] = x
InSeq(s, x) == \E i \in 1..Len(s) : s[i] = x

Max(S) == CHOOSE x \in S : \A y \in S : x >= y

RECURSIVE DescSeq(_)
\* the elements of a set of numbers, in descending order
DescSeq(S) ==
    IF S = {} THEN <<>> ELSE <<Max(S)>> \o DescSeq(S \ {Max(S)})

zreg == [prog |-> 0, link |-> 0, p1 |-> 0, p2 |-> <<>>, s1 |-> 0, s2 |-> 0,
         active |-> 0, loop |-> 1, refset |-> 0,
         set |-> {}, use1 |-> {}, use2 |-> {},
         refbehind |-> {}, refahead |-> {},
         calbehind |-> {}, calahead |-> {},
         regdiff |-> {}, act |-> {}, regu |-> {}]

\* flowstart: one node per instruction; s1 follows the chain unless the
\* instruction breaks the flow, s2 follows the branch; p1/p2 transpose
\* them (p2 is the list threaded through p2link, last brancher first).
flowstart(pg) ==
    LET ch == Chain(pg)
        n == Len(ch)
        Falls(i) == "Break" \notin proginfo(pg[ch[i]]).flags
        Target(i) ==
            IF pg[ch[i]].to.type = "TYPE_BRANCH" /\ InSeq(ch, pg[ch[i]].to.branch)
            THEN SeqIndex(ch, pg[ch[i]].to.branch) ELSE 0
    IN [i \in 1..n |->
          [zreg EXCEPT
             !.prog = ch[i],
             !.link = IF i < n THEN i + 1 ELSE 0,
             !.s1 = IF i < n /\ Falls(i) THEN i + 1 ELSE 0,
             !.s2 = Target(i),
             !.p1 = IF i > 1 /\ Falls(i - 1) THEN i - 1 ELSE 0,
             !.p2 = DescSeq({j \in 1..n : Target(j) = i})]]

\* flowrpo: loop weights. A node inside the span of k backward branches
\* has weight 1 + k*LOOP.
flowrpo(g) ==
    [i \in 1..Len(g) |->
        [g[i] EXCEPT !.loop =
            1 + LOOP * Cardinality({j \in 1..Len(g) :
                          g[j].s2 # 0 /\ g[j].s2 <= i /\ i <= j})]]

uniqp(g, r) ==
    IF g[r].p1 = 0
    THEN (IF Len(g[r].p2) = 1 THEN g[r].p2[1] ELSE 0)
    ELSE (IF Len(g[r].p2) # 0 THEN 0 ELSE g[r].p1)

uniqs(g, r) ==
    IF g[r].s1 = 0 THEN g[r].s2
    ELSE (IF g[r].s2 # 0 THEN 0 ELSE g[r].s1)

(***************************************************************************)
(* The variable table (mkvar, setaddrs).  A machine state m is the record  *)
(* of regopt's globals: prog, reg, var, nodeopt, hasdefer, debug, sets,    *)
(* region, change, and fatal (set once fatal() was called).                *)
(***************************************************************************)
nvar(m) == Cardinality(DOMAIN m.var)

zvar == [node |-> 0, name |-> "NAME_NONE", offset |-> 0, width |-> 0,
         etype |-> "0", addr |-> 0, nextinnode |-> -1]

doregbits(r) ==
    IF r >= REG_AX /\ r <= REG_R15 THEN {r - REG_AX}
    ELSE IF r >= REG_X0 /\ r <= REG_X0 + 15 THEN {r - REG_X0 + 16}
    ELSE {}

\* only ranges that start at the same offset taken to overlap
overlap_sameoffset(o1, w1, o2, w2) == o1 = o2

overlap(o1, w1, o2, w2) == (o1 + w1 > o2) /\ (o2 + w2 > o1)

RECURSIVE setaddrs(_, _)
\* setaddrs returns the var table with every piece of each variable in
\* bit marked addr = 2
setaddrs(v, bit) ==
    IF bit = {} THEN v
    ELSE LET i == bnum(bit)
             node == v[i].node
             n == v[i].name
         IN setaddrs([j \in DOMAIN v |->
                         IF v[j].node = node /\ v[j].name = n
                         THEN [v[j] EXCEPT !.addr = 2] ELSE v[j]],
                     bit \ {i})

RECURSIVE mkvarscan(_, _, _, _, _)
\* the search loop of mkvar over var[i..nvar-1]: the index of the Var
\* that matches (or -1), the table with the overlapping Vars disabled,
\* and flag
mkvarscan(v, i, n, a, flag) ==
    LET \* the Vars from i on that the loop does not skip
        same == {j \in DOMAIN v : j >= i /\ v[j].node = a.node /\ v[j].name = n}
        k == Min(same)
    IN IF same = {} THEN [found |-> -1, var |-> v, flag |-> flag]
       ELSE IF v[k].offset = a.offset /\ v[k].etype = a.etype
               /\ v[k].width = a.width
       THEN [found |-> k, var |-> v, flag |-> flag]
       ELSE IF overlap(v[k].offset, v[k].width, a.offset, a.width)
       THEN mkvarscan([v EXCEPT ![k].addr = 1], k + 1, n, a, 1)
       ELSE mkvarscan(v, k + 1, n, a, flag)

\* the table full, with nothing marked
capmark_none(v, node) == v

\* the table is full: the Vars already tracked for the node get their
\* address marked as taken
capmark(v, node) ==
    [j \in DOMAIN v |->
        IF v[j].node = node THEN [v[j] EXCEPT !.addr = 1] ELSE v[j]]

RECURSIVE mkvar(_, _, _)
\* mkvar(m, r, a): [m |-> the machine state after the call, bit |-> result]
mkvar(m, r, a) ==
    LET none(mm) == [m |-> mm, bit |-> zbits]
        m1 == IF r # 0
              THEN [m EXCEPT !.reg[r].use1 = @ \cup doregbits(a.index)]
              ELSE m
    IN
    IF a.type = "TYPE_NONE" THEN none(m)
    ELSE IF a.type = "TYPE_ADDR"
    THEN LET b == mkvar(m1, r, [a EXCEPT !.type = "TYPE_MEM"])
         IN none([b.m EXCEPT !.var = setaddrs(b.m.var, b.bit)])
    ELSE IF a.type # "TYPE_MEM"
    THEN [m |-> m1, bit |-> doregbits(a.reg)]
    ELSE IF a.name \notin {"NAME_EXTERN", "NAME_STATIC", "NAME_PARAM", "NAME_AUTO"}
    THEN none(m1)
    ELSE IF a.node = 0 THEN none(m1)
    ELSE IF a.width < 0 THEN none([m1 EXCEPT !.fatal = TRUE])
    ELSE
    LET sc == mkvarscan(m1.var, 0, a.name, a, 0)
        m2 == [m1 EXCEPT !.var = sc.var]
        i == nvar(m2)
        node == Node[a.node]
    IN
    IF sc.found >= 0 THEN [m |-> m2, bit |-> blsh(sc.found)]
    ELSE IF a.etype \in {"0", "TFUNC"} THEN none(m2)
    ELSE IF i >= NVAR
    THEN IF m.debug.w > 1 THEN none([m2 EXCEPT !.fatal = TRUE])
         ELSE none([m2 EXCEPT !.var = capmark(@, a.node)])
    ELSE
    LET v == [node |-> a.node, name |-> a.name, offset |-> a.offset,
              width |-> a.width, etype |-> a.etype,
              addr |-> IF node.addrtaken # 0
                          \/ node.class = "PEXTERN"
                          \/ (m.hasdefer /\ node.class = "PPARAMOUT")
                       THEN 1 ELSE sc.flag,
              nextinnode |-> m2.nodeopt[a.node]]
        bit == blsh(i)
    IN [m |-> [m2 EXCEPT
                 !.var = [j \in 0..i |-> IF j = i THEN v ELSE m2.var[j]],
                 !.nodeopt[a.node] = i,
                 !.sets.externs = IF a.name \in {"NAME_EXTERN", "NAME_STATIC"}
                                  THEN @ \cup bit ELSE @,
                 !.sets.params = IF a.name = "NAME_PARAM"
                                 THEN @ \cup bit ELSE @,
                 !.sets.ivar = IF node.class = "PPARAM"
                               THEN @ \cup bit ELSE @,
                 !.sets.ovar = IF node.class = "PPARAMOUT"
                               THEN @ \cup bit ELSE @],
        bit |-> bit]

(***************************************************************************)
(* regopt, entry and pass 1: reset the tables, build the flow graph and    *)
(* find the use and set of variables.                                      *)
(***************************************************************************)
RtoB(r) == IF r < REG_AX \/ r > REG_R15 THEN {} ELSE {r - REG_AX}
FtoB(f) == IF f < REG_X0 \/ f > REG_X15 THEN {} ELSE {f - REG_X0 + 16}
REGBITS == 0..(NREGVAR - 1)

zsets == [externs |-> {}, params |-> {}, consts |-> {}, addrs |-> {},
          ivar |-> {}, ovar |-> {}, regbits |-> RtoB(REG_SP)]

\* what regopt has not written yet: no node has Vars (opt == nil), no
\* region, no change
idle == [nodeopt |-> [n \in DOMAIN Node |-> -1], region |-> <<>>, change |-> 0]

\* the entry of regopt for the chain pg, old being what the globals hold:
\* nvar is set to NREGVAR, the register entries of var are zeroed, the
\* sets are cleared and the flow graph is built. The opt fields of the
\* nodes, the region list and change are not written here.
regoptenter(old, pg, dbg, defer, ar) ==
    [prog |-> pg, reg |-> flowstart(pg),
     var |-> [i \in 0..(NREGVAR - 1) |-> [zvar EXCEPT !.node = regnodes(i)]],
     nodeopt |-> old.nodeopt,
     hasdefer |-> defer, arch |-> ar, debug |-> dbg, sets |-> zsets,
     region |-> old.region, change |-> old.change, rgnnodes |-> <<>>,
     fatal |-> FALSE]

\* the machine state regopt starts from, for the chain pg, in a process
\* that has optimized nothing yet
regoptstart(pg, dbg, defer, ar) == regoptenter(idle, pg, dbg, defer, ar)

\* one operand of one instruction in pass 1: which is "from" or "to"
pass1operand(m, r, which) ==
    LET p == m.prog[m.reg[r].prog]
        left == which = "from"
        at(s) ==
          LET info == s[1]
              bit == s[2].bit
              m1 == s[2].m
              isAddr == (IF left THEN "LeftAddr" ELSE "RightAddr") \in info.flags
              isRead == (IF left THEN "LeftRead" ELSE "RightRead") \in info.flags
              isWrite == (IF left THEN "LeftWrite" ELSE "RightWrite") \in info.flags
          IN IF bit = {} \/ m1.fatal THEN m1
             ELSE [m1 EXCEPT
                     !.var = IF isAddr THEN setaddrs(@, bit) ELSE @,
                     !.reg[r].use1 = IF isRead /\ left THEN @ \cup bit ELSE @,
                     !.reg[r].use2 = IF isRead /\ ~left THEN @ \cup bit ELSE @,
                     !.reg[r].set = IF isWrite THEN @ \cup bit ELSE @]
    IN Strict(at, <<proginfo(p), mkvar(m, r, IF left THEN p.from ELSE p.to)>>)

pass1node(m, r) ==
    LET p == m.prog[m.reg[r].prog]
        info == proginfo(p)
    IN IF p.as \in {"AVARDEF", "AVARKILL"} THEN m
       ELSE IF p.as = "ACALL" /\ p.to.type = "TYPE_MEM"
               /\ p.to.name = "NAME_EXTERN" THEN m
       ELSE LET m0 == [m EXCEPT
                         !.reg[r].use1 = @ \cup info.reguse \cup info.regindex,
                         !.reg[r].set = @ \cup info.regset]
                to(m1) == IF m1.fatal THEN m1 ELSE pass1operand(m1, r, "to")
            IN Strict(to, pass1operand(m0, r, "from"))

RECURSIVE pass1from(_, _)
pass1from(m, r) ==
    IF r = 0 \/ m.fatal THEN m
    ELSE pass1from(pass1node(m, r), m.reg[r].link)

pass1(m) ==
    LET at(m1) == [m1 EXCEPT !.sets.addrs =
                       {i \in DOMAIN m1.var : m1.var[i].addr # 0}]
    IN Strict(at, pass1from(m, 1))

\* pass 2: find the looping structure
pass2(m) == [m EXCEPT !.reg = flowrpo(m.reg)]

(***************************************************************************)
(* Pass 2.5: walkvardef.  r.act records the Vars of fat variables with a   *)
(* VARDEF since the last CALL.                                             *)
(***************************************************************************)
RECURSIVE nodevars(_, _)
\* the Vars on the nextinnode list that starts at Var i
nodevars(v, i) == IF i < 0 THEN {} ELSE {i} \cup nodevars(v, v[i].nextinnode)

RECURSIVE vardefwalk(_, _, _, _)
\* the first loop of walkvardef going on beyond a CALL
vardefwalk_pastcall(m, n, r1, active) ==
    IF r1 = 0 THEN [m |-> m, stop |-> 0]
    ELSE IF m.reg[r1].active = active THEN [m |-> m, stop |-> r1]
    ELSE LET p == m.prog[m.reg[r1].prog]
             m1 == [m EXCEPT !.reg[r1].active = active]
             m2 == [m1 EXCEPT !.reg[r1].act =
                        @ \cup nodevars(m.var, m.nodeopt[n])]
         IN IF p.as = "AVARKILL" /\ p.to.node = n
            THEN [m |-> m1, stop |-> r1]
            ELSE vardefwalk(m2, n, m.reg[r1].s1, active)

\* first loop of walkvardef: [m, stop], stop being r1 when the loop ends
vardefwalk(m, n, r1, active) ==
    IF r1 = 0 THEN [m |-> m, stop |-> 0]
    ELSE IF m.reg[r1].active = active THEN [m |-> m, stop |-> r1]
    ELSE LET p == m.prog[m.reg[r1].prog]
             m1 == [m EXCEPT !.reg[r1].active = active]
             m2 == [m1 EXCEPT !.reg[r1].act =
                        @ \cup nodevars(m.var, m.nodeopt[n])]
         IN IF p.as = "AVARKILL" /\ p.to.node = n
            THEN [m |-> m1, stop |-> r1]
            ELSE IF p.as = "ACALL" THEN [m |-> m2, stop |-> r1]
            ELSE vardefwalk(m2, n, m.reg[r1].s1, active)

RECURSIVE walkvardef(_, _, _, _)
RECURSIVE vardefbranch(_, _, _, _, _)
walkvardef(m, n, r, active) ==
    LET w == vardefwalk(m, n, r, active)
    IN vardefbranch(w.m, n, r, w.stop, active)

vardefbranch(m, n, r2, stop, active) ==
    IF r2 = stop \/ r2 = 0 THEN m
    ELSE vardefbranch(IF m.reg[r2].s2 # 0
                      THEN walkvardef(m, n, m.reg[r2].s2, active) ELSE m,
                      n, m.reg[r2].s1, stop, active)

RECURSIVE pass25from(_, _, _)
pass25from(m, r, active) ==
    IF r = 0 THEN m
    ELSE LET p == m.prog[m.reg[r].prog]
         IN IF p.as = "AVARDEF" /\ p.to.node # 0 /\ Node[p.to.node].fat
               /\ m.nodeopt[p.to.node] # -1
            THEN pass25from(walkvardef(m, p.to.node, r, active + 1),
                            m.reg[r].link, active + 1)
            ELSE pass25from(m, m.reg[r].link, active)

pass25(m) ==
    pass25from([m EXCEPT !.reg = [i \in DOMAIN m.reg |->
                    [m.reg[i] EXCEPT !.active = 0, !.act = zbits]]], 1, 0)

(***************************************************************************)
(* Pass 3: prop, backward propagation of usage.                            *)
(***************************************************************************)
RECURSIVE propexpand_unlesshead(_, _, _)
\* the sibling expansion expanding only while the head's bit is not yet set
propexpand_unlesshead(m0, cal0, i) ==
    LET at(s) ==
          LET m == s[1]
              cal == s[2]
              todo == {j \in cal : /\ j >= i
                                   /\ j < nvar(m)
                                   /\ m.var[j].node > 0
                                   /\ m.nodeopt[m.var[j].node] # -1}
          IN
              IF todo = {} THEN cal
              ELSE LET k == Min(todo)
                       head == m.nodeopt[m.var[k].node]
                   IN IF head \notin cal
                      THEN propexpand_unlesshead(m, cal \cup nodevars(m.var, head), k + 1)
                      ELSE propexpand_unlesshead(m, cal, k + 1)
    IN Strict(at, <<m0, cal0>>)

RECURSIVE propexpand(_, _, _)
\* the sibling expansion at a CALL: bits are visited in ascending order
\* and tested against the set as expanded so far
propexpand(m0, cal0, i) ==
    LET at(s) ==
          LET m == s[1]
              cal == s[2]
              \* the bits from i on that the loop does not skip
              todo == {j \in cal : /\ j >= i
                                   /\ j < nvar(m)
                                   /\ m.var[j].node > 0
                                   /\ m.nodeopt[m.var[j].node] # -1}
          IN
              IF todo = {} THEN cal
              ELSE LET k == Min(todo)
                       head == m.nodeopt[m.var[k].node]
                   IN IF k = head \/ head \notin cal
                      THEN propexpand(m, cal \cup nodevars(m.var, head), k + 1)
                      ELSE propexpand(m, cal, k + 1)
    IN Strict(at, <<m0, cal0>>)

\* the adjustment with both sets emptied at a RET
propadjust_retempty(m, r1, ref, cal) ==
    LET p == m.prog[m.reg[r1].prog]
    IN CASE p.as = "ACALL" /\ ~noreturn(p) ->
              [ref |-> {},
               cal |-> propexpand(m, cal \cup ref \cup m.sets.externs
                                       \cup m.sets.ivar \cup m.reg[r1].act, 0)]
         [] p.as \in {"ATEXT", "ARET"} -> [ref |-> {}, cal |-> {}]
         [] OTHER -> [ref |-> ref, cal |-> cal]

\* the adjustment with the address-escaped Vars added at a CALL in place
\* of externs and act
propadjust_calladdrs(m, r1, ref, cal) ==
    LET p == m.prog[m.reg[r1].prog]
    IN CASE p.as = "ACALL" /\ ~noreturn(p) ->
              [ref |-> {},
               cal |-> propexpand(m, cal \cup ref \cup m.sets.addrs
                                       \cup m.sets.ivar, 0)]
         [] p.as = "ATEXT" -> [ref |-> {}, cal |-> {}]
         [] p.as = "ARET" ->
              [ref |-> {}, cal |-> m.sets.externs \cup m.sets.ovar]
         [] OTHER -> [ref |-> ref, cal |-> cal]

\* the adjustment with ref and cal kept as they are at a TEXT
propadjust_textkeeps(m, r1, ref, cal) ==
    LET p == m.prog[m.reg[r1].prog]
    IN CASE p.as = "ACALL" /\ ~noreturn(p) ->
              [ref |-> {},
               cal |-> propexpand(m, cal \cup ref \cup m.sets.externs
                                       \cup m.sets.ivar \cup m.reg[r1].act, 0)]
         [] p.as = "ARET" ->
              [ref |-> {}, cal |-> m.sets.externs \cup m.sets.ovar]
         [] OTHER -> [ref |-> ref, cal |-> cal]

\* ref and cal after the CALL/TEXT/RET adjustment of prop at node r1
propadjust(m, r1, ref, cal) ==
    LET p == m.prog[m.reg[r1].prog]
    IN CASE p.as = "ACALL" /\ ~noreturn(p) ->
              [ref |-> {},
               cal |-> propexpand(m, cal \cup ref \cup m.sets.externs
                                       \cup m.sets.ivar \cup m.reg[r1].act, 0)]
         [] p.as = "ATEXT" -> [ref |-> {}, cal |-> {}]
         [] p.as = "ARET" ->
              [ref |-> {}, cal |-> m.sets.externs \cup m.sets.ovar]
         [] OTHER -> [ref |-> ref, cal |-> cal]

RECURSIVE propwalk(_, _, _, _)
\* first loop of prop: [m, stop], stop being r1 when the loop ends
propwalk(m0, r1, ref0, cal0) ==
    LET at(s) ==
          LET m == s[1]
              ref == s[2]
              cal == s[3]
          IN
              IF r1 = 0 THEN [m |-> m, stop |-> 0]
              ELSE LET g == m.reg[r1]
                       ref1 == ref \cup g.refahead
                       cal1 == cal \cup g.calahead
                       ch == (IF ref1 # g.refahead THEN 1 ELSE 0)
                             + (IF cal1 # g.calahead THEN 1 ELSE 0)
                       behind(adj) ==
                         LET ref2 == (adj.ref \ g.set) \cup g.use1 \cup g.use2
                             cal2 == adj.cal \ (g.set \cup g.use1 \cup g.use2)
                             m1 == [m EXCEPT !.reg[r1].refahead = ref1,
                                             !.reg[r1].calahead = cal1,
                                             !.reg[r1].refbehind = ref2,
                                             !.reg[r1].calbehind = cal2,
                                             !.change = @ + ch]
                         IN IF g.active # 0 THEN [m |-> m1, stop |-> r1]
                            ELSE propwalk([m1 EXCEPT !.reg[r1].active = 1],
                                          g.p1, ref2, cal2)
                   IN Strict(behind, propadjust(m, r1, ref1, cal1))
    IN Strict(at, <<m0, ref0, cal0>>)

RECURSIVE prop(_, _, _, _)
RECURSIVE propbranch(_, _, _)
RECURSIVE proppreds(_, _, _)

prop(m, r, ref, cal) ==
    LET branches(w) == propbranch(w.m, r, w.stop)
    IN Strict(branches, propwalk(m, r, ref, cal))

\* second loop of prop: from r up the p1 links to stop. The p1 link of a
\* node is the node before it, so the nodes of the walk are a run of
\* indices; the ones without branch predecessors are passed over.
propbranch(m0, r, stop) ==
    LET at(s) ==
          LET m == s[1]
              todo == {j \in (stop + 1)..r :
                          /\ \A k \in (j + 1)..r : m.reg[k].p1 = k - 1
                          /\ m.reg[j].p2 # <<>>}
              k == Max(todo)
          IN
              IF todo = {} THEN m
              ELSE propbranch(proppreds(m, k, m.reg[k].p2), m.reg[k].p1, stop)
    IN Strict(at, <<m0>>)

\* prop from each branch predecessor of r
proppreds(m0, r, p2) ==
    LET at(s) ==
          LET m == s[1]
          IN
              IF p2 = <<>> THEN m
              ELSE proppreds(prop(m, Head(p2), m.reg[r].refbehind, m.reg[r].calbehind),
                             r, Tail(p2))
    IN Strict(at, <<m0>>)

RECURSIVE loop1rets(_, _)
loop1rets(m0, r) ==
    LET at(s) ==
          LET m == s[1]
              \* the RETs from r on in link order
              rets == {j \in r..Len(m.reg) : m.prog[m.reg[j].prog].as = "ARET"}
              k == Min(rets)
          IN
              IF r = 0 \/ rets = {} THEN m
              ELSE loop1rets(prop(m, k, zbits, zbits), m.reg[k].link)
    IN Strict(at, <<m0>>)

\* label loop1: one backward propagation from every RET
loop1(m) ==
    loop1rets([m EXCEPT !.change = 0,
                        !.reg = [i \in DOMAIN m.reg |->
                                    [m.reg[i] EXCEPT !.active = 0]]], 1)

\* the sweep picking up nothing
loop11sweep_none(m0, r, i) == [m |-> m0, i |-> i]

RECURSIVE loop11sweep(_, _, _)
\* label loop11: one sweep that picks up unreachable code; [m, i]
loop11sweep(m0, r, i) ==
    LET at(s) ==
          LET m == s[1]
              \* the nodes from r on that are not active before an active one
              todo == {j \in r..Len(m.reg) :
                          /\ m.reg[j].link # 0
                          /\ m.reg[m.reg[j].link].active # 0
                          /\ m.reg[j].active = 0}
              k == Min(todo)
          IN
              IF r = 0 \/ todo = {} THEN [m |-> m, i |-> i]
              ELSE loop11sweep(prop(m, k, zbits, zbits), m.reg[k].link, 1)
    IN Strict(at, <<m0>>)

loop11(m) == loop11sweep(m, 1, 0)

(***************************************************************************)
(* Pass 4: synch, forward propagation of register/variable synchrony.      *)
(***************************************************************************)
LOAD(g) == g.refahead \ g.refbehind
STORE(g) == g.calahead \ g.calbehind

RECURSIVE synch(_, _, _)
\* synch counting a change at every node it visits
synch_countall(m0, r1, dif0) ==
    LET at(s) ==
          LET m == s[1]
              dif == s[2]
          IN
              IF r1 = 0 THEN m
              ELSE LET g == m.reg[r1]
                       dif1 == (dif \ LOAD(g)) \cup g.set \cup g.regdiff
                       m1 == [m EXCEPT !.reg[r1].regdiff = dif1, !.change = 1]
                   IN IF g.active # 0 THEN m1
                      ELSE LET m2 == [m1 EXCEPT !.reg[r1].active = 1]
                               dif2 == dif1 \ STORE(g)
                               m3 == IF g.s2 # 0 THEN synch(m2, g.s2, dif2) ELSE m2
                           IN synch(m3, g.s1, dif2)
    IN Strict(at, <<m0, dif0>>)

\* synch passing the store set of a node on to its successors
synch_storeskept(m0, r1, dif0) ==
    LET at(s) ==
          LET m == s[1]
              dif == s[2]
          IN
              IF r1 = 0 THEN m
              ELSE LET g == m.reg[r1]
                       dif1 == (dif \ LOAD(g)) \cup g.set \cup g.regdiff
                       m1 == IF dif1 # g.regdiff
                             THEN [m EXCEPT !.reg[r1].regdiff = dif1, !.change = @ + 1]
                             ELSE m
                   IN IF g.active # 0 THEN m1
                      ELSE LET m2 == [m1 EXCEPT !.reg[r1].active = 1]
                               m3 == IF g.s2 # 0 THEN synch(m2, g.s2, dif1) ELSE m2
                           IN synch(m3, g.s1, dif1)
    IN Strict(at, <<m0, dif0>>)

synch(m0, r1, dif0) ==
    LET at(s) ==
          LET m == s[1]
              dif == s[2]
          IN
              IF r1 = 0 THEN m
              ELSE LET g == m.reg[r1]
                       dif1 == (dif \ LOAD(g)) \cup g.set \cup g.regdiff
                       m1 == IF dif1 # g.regdiff
                             THEN [m EXCEPT !.reg[r1].regdiff = dif1, !.change = @ + 1]
                             ELSE m
                   IN IF g.active # 0 THEN m1
                      ELSE LET m2 == [m1 EXCEPT !.reg[r1].active = 1]
                               dif2 == dif1 \ STORE(g)
                               m3 == IF g.s2 # 0 THEN synch(m2, g.s2, dif2) ELSE m2
                           IN synch(m3, g.s1, dif2)
    IN Strict(at, <<m0, dif0>>)

\* label loop2: one forward propagation from the first node
loop2(m) ==
    synch([m EXCEPT !.change = 0,
                    !.reg = [i \in DOMAIN m.reg |->
                                [m.reg[i] EXCEPT !.active = 0]]], 1, zbits)

\* pass 4.5 filling regu and stripping nothing
pass45_nostrip(m) ==
    [m EXCEPT !.reg = [i \in DOMAIN m.reg |->
        [m.reg[i] EXCEPT !.regu = (m.reg[i].refbehind \cup m.reg[i].set)
                                     \cap REGBITS]]]

\* pass 4.5: move the register pseudo-variables into regu
pass45(m) ==
    [m EXCEPT !.reg = [i \in DOMAIN m.reg |->
        LET g == m.reg[i]
        IN [g EXCEPT !.regu = (g.refbehind \cup g.set) \cap REGBITS,
                     !.set = @ \ REGBITS,
                     !.use1 = @ \ REGBITS,
                     !.use2 = @ \ REGBITS,
                     !.refbehind = @ \ REGBITS,
                     !.refahead = @ \ REGBITS,
                     !.calbehind = @ \ REGBITS,
                     !.calahead = @ \ REGBITS,
                     !.regdiff = @ \ REGBITS,
                     !.act = @ \ REGBITS]]]

(***************************************************************************)
(* Pass 5: isolate regions and calculate their costs (paint1).             *)
(***************************************************************************)
\* nopout: turn an instruction into a NOP, keeping it linked
nopout(p) == [p EXCEPT !.as = "ANOP", !.from = zaddr, !.to = zaddr]

\* excise the instruction of flow node r
excise(m, r) == [m EXCEPT !.prog[m.reg[r].prog] = nopout(@)]

RECURSIVE paintback(_, _, _, _)
\* the first loop of paint1 and paint3 (stopAct = TRUE: stop below a
\* predecessor whose act bit is set) and of paint2 (stopAct = FALSE:
\* stop below one whose act bit is clear)
paintback(g, r, bn, stopAct) ==
    IF bn \notin g[r].refbehind THEN r
    ELSE LET r1 == g[r].p1
         IN IF r1 = 0 THEN r
            ELSE IF bn \notin g[r1].refahead THEN r
            ELSE IF (bn \in g[r1].act) = stopAct THEN r
            ELSE paintback(g, r1, bn, stopAct)

RECURSIVE paint1(_, _, _)
RECURSIVE paint1fwd(_, _, _)
RECURSIVE paint1preds(_, _, _)

paint1(m, r0, bn) ==
    IF bn \in m.reg[r0].act THEN m
    ELSE LET r == paintback(m.reg, r0, bn, TRUE)
             g == m.reg[r]
             m1 == IF bn \in (LOAD(g) \ (g.set \ (g.use1 \cup g.use2)))
                   THEN [m EXCEPT !.change = @ - CLOAD * g.loop] ELSE m
         IN paint1fwd(m1, r, bn)

paint1preds(m, p2, bn) ==
    IF p2 = <<>> THEN m
    ELSE paint1preds(IF bn \in m.reg[Head(p2)].refahead
                     THEN paint1(m, Head(p2), bn) ELSE m, Tail(p2), bn)

\* the second loop of paint1, entered at node r
paint1fwd(m, r, bn) ==
    LET g == m.reg[r]
        credit == (IF m.prog[g.prog].as # "ANOP"
                   THEN (IF bn \in g.use1 THEN CREF * g.loop ELSE 0)
                        + (IF bn \in (g.use2 \cup g.set)
                           THEN CREF * g.loop ELSE 0)
                   ELSE 0)
                  - (IF bn \in (STORE(g) \cap g.regdiff)
                     THEN CLOAD * g.loop ELSE 0)
        m1 == [m EXCEPT !.reg[r].act = @ \cup {bn}, !.change = @ + credit]
        s1 == g.s1
        succ1(m3) ==
            IF s1 = 0 THEN m3
            ELSE IF bn \in m3.reg[s1].act THEN m3
            ELSE IF bn \notin m3.reg[s1].refbehind THEN m3
            ELSE paint1fwd(m3, s1, bn)
        succ2(m2) ==
            IF bn \notin g.refahead THEN m2
            ELSE Strict(succ1,
                        IF g.s2 # 0 /\ bn \in m2.reg[g.s2].refbehind
                        THEN paint1(m2, g.s2, bn) ELSE m2)
    IN Strict(succ2,
              IF bn \in g.refbehind THEN paint1preds(m1, g.p2, bn) ELSE m1)

\* the cost a region is recorded with: change stored into a short. The
\* field nodes of a region is history: the nodes on which paint1 set the
\* act bit for it
short(n) == ((n + 32768) % 65536) - 32768

RECURSIVE pass5bits(_, _, _)
\* the while(bany(&bit)) loop of pass 5 at node r; full is set once the
\* region array is full
pass5bits(m, r, bit) ==
    IF bit = {} \/ m.full THEN m
    ELSE LET i == bnum(bit)
             painted(m1) ==
                 IF m1.change <= 0 THEN pass5bits(m1, r, bit \ {i})
                 ELSE LET m2 == [m1 EXCEPT !.region = Append(@,
                                    [enter |-> r, cost |-> short(m1.change),
                                     varno |-> i, regno |-> 0,
                                     nodes |-> {n \in DOMAIN m1.reg :
                                                  /\ i \in m1.reg[n].act
                                                  /\ i \notin m.reg[n].act}])]
                      IN IF Len(m2.region) >= NRGN
                         THEN [m2 EXCEPT !.full = TRUE]
                         ELSE pass5bits(m2, r, bit \ {i})
         IN Strict(painted, paint1([m EXCEPT !.change = 0], r, i))

\* the node of pass 5 that excises whatever sets a Var
pass5node_anyset(m, r) ==
    LET g == m.reg[r]
        m1 == IF g.set # {} /\ g.refset = 0
              THEN excise([m EXCEPT !.reg[r].refset = 1], r) ELSE m
    IN pass5bits(m1, r, LOAD(g) \ (g.act \cup m.sets.addrs))

pass5node(m, r) ==
    LET g == m.reg[r]
        dead == g.set \ (g.refahead \cup g.calahead \cup m.sets.addrs)
        m1 == IF dead # {} /\ g.refset = 0
              THEN excise([m EXCEPT !.reg[r].refset = 1], r) ELSE m
    IN pass5bits(m1, r, LOAD(g) \ (g.act \cup m.sets.addrs))

RECURSIVE pass5from(_, _)
pass5from(m, r) ==
    IF r = 0 \/ m.full THEN m
    ELSE pass5from(pass5node(m, r), m.reg[r].link)

pass5(m) ==
    LET g == m.reg[1]
        unset == (g.refahead \cup g.calahead)
                 \ (m.sets.externs \cup m.sets.params \cup m.sets.addrs
                    \cup m.sets.consts)
        m1 == [m EXCEPT !.reg = [i \in DOMAIN m.reg |->
                  [m.reg[i] EXCEPT
                     !.act = zbits,
                     !.refset = IF i = 1 /\ unset # {} THEN 1 ELSE @]]]
        done(m2) == [f \in DOMAIN m |-> m2[f]]
    IN Strict(done,
              pass5from([m1 EXCEPT !.region = <<>>] @@ [full |-> FALSE], 1))

(***************************************************************************)
(* The sort that ends pass 5.                                              *)
(***************************************************************************)
\* rcmp with the operands of the tie-break exchanged
rcmp_lowfirst(p1, p2) ==
    IF p2.cost - p1.cost # 0 THEN p2.cost - p1.cost
    ELSE p1.varno - p2.varno

\* rcmp: negative when p1 sorts before p2
rcmp(p1, p2) ==
    IF p2.cost - p1.cost # 0 THEN p2.cost - p1.cost
    ELSE p2.varno - p1.varno

SeqRange(q) == {q[i] : i \in 1..Len(q)}

RECURSIVE qsorted(_)
\* every order of the set S of regions that qsort may produce with rcmp:
\* an element is placed only when no remaining one sorts before it
qsorted(S) ==
    IF S = {} THEN {<<>>}
    ELSE UNION {{<<x>> \o rest : rest \in qsorted(S \ {x})} :
                x \in {y \in S : \A z \in S : rcmp(z, y) >= 0}}

(***************************************************************************)
(* Pass 6: determine used registers (paint2), pick one (allreg) and        *)
(* replace the code (paint3, addmove, addreg).                             *)
(***************************************************************************)
RECURSIVE paint2(_, _, _)
RECURSIVE paint2fwd(_, _, _, _)
RECURSIVE paint2preds(_, _, _, _)

\* paint2 going on to every successor that has the act bit, whether the
\* variable is referenced ahead of the node and behind the successor or not
paint2fwd_actonly(m, r, bn, vreg) ==
    LET g == m.reg[r]
        m1 == [m EXCEPT !.reg[r].act = @ \ {bn}]
        v1 == vreg \cup g.regu
        s1 == g.s1
        succ1(w3) ==
            IF s1 = 0 THEN w3
            ELSE IF bn \notin w3.m.reg[s1].act THEN w3
            ELSE paint2fwd(w3.m, s1, bn, w3.vreg)
        succ2(w2) ==
            LET join(w) == [m |-> w.m, vreg |-> w2.vreg \cup w.vreg]
            IN Strict(succ1,
                      IF g.s2 # 0
                      THEN Strict(join, paint2(w2.m, g.s2, bn))
                      ELSE w2)
    IN Strict(succ2,
              IF bn \in g.refbehind THEN paint2preds(m1, g.p2, bn, v1)
              ELSE [m |-> m1, vreg |-> v1])

\* paint2 returns [m, vreg]
paint2(m, r0, bn) ==
    IF bn \notin m.reg[r0].act THEN [m |-> m, vreg |-> m.sets.regbits]
    ELSE paint2fwd(m, paintback(m.reg, r0, bn, FALSE), bn, m.sets.regbits)

paint2preds(m, p2, bn, vreg) ==
    IF p2 = <<>> THEN [m |-> m, vreg |-> vreg]
    ELSE IF bn \in m.reg[Head(p2)].refahead
    THEN LET rest(w) == paint2preds(w.m, Tail(p2), bn, vreg \cup w.vreg)
         IN Strict(rest, paint2(m, Head(p2), bn))
    ELSE paint2preds(m, Tail(p2), bn, vreg)

paint2fwd(m, r, bn, vreg) ==
    LET g == m.reg[r]
        m1 == [m EXCEPT !.reg[r].act = @ \ {bn}]
        v1 == vreg \cup g.regu
        s1 == g.s1
        succ1(w3) ==
            IF s1 = 0 THEN w3
            ELSE IF bn \notin w3.m.reg[s1].act THEN w3
            ELSE IF bn \notin w3.m.reg[s1].refbehind THEN w3
            ELSE paint2fwd(w3.m, s1, bn, w3.vreg)
        succ2(w2) ==
            LET join(w) == [m |-> w.m, vreg |-> w2.vreg \cup w.vreg]
            IN IF bn \notin g.refahead THEN w2
               ELSE Strict(succ1,
                           IF g.s2 # 0 /\ bn \in g.refahead
                              /\ bn \in w2.m.reg[g.s2].refbehind
                           THEN Strict(join, paint2(w2.m, g.s2, bn))
                           ELSE w2)
    IN Strict(succ2,
              IF bn \in g.refbehind THEN paint2preds(m1, g.p2, bn, v1)
              ELSE [m |-> m1, vreg |-> v1])

\* BtoR(~b) keeping BP and R15 on every target
BtoRnot_allgeneral(ar, b) ==
    LET free == (0..15) \ b
    IN IF free = {} THEN 0 ELSE Min(free) + REG_AX

\* BtoR(~b) and BtoF(~b): the lowest register outside b, or 0
BtoRnot(ar, b) ==
    LET free == ((0..15) \ b)
                \ (IF ar.nacl THEN {REG_BP - REG_AX, REG_R15 - REG_AX}
                   ELSE IF ar.framepointer_enabled THEN {REG_BP - REG_AX}
                   ELSE {})
    IN IF free = {} THEN 0 ELSE Min(free) + REG_AX

BtoFnot(b) ==
    LET free == (16..31) \ b
    IN IF free = {} THEN 0 ELSE Min(free) - 16 + REG_X0

IntTypes == {"TINT8", "TUINT8", "TINT16", "TUINT16", "TINT32", "TUINT32",
             "TINT64", "TUINT64", "TINT", "TUINT", "TUINTPTR", "TBOOL",
             "TPTR32", "TPTR64"}
FloatTypes == {"TFLOAT32", "TFLOAT64"}

\* allreg picking a register without looking at the used set b
allreg_anyreg(m, b, rgn) ==
    LET et == m.var[rgn.varno].etype
        i == IF et \in IntTypes THEN BtoRnot(m.arch, {}) ELSE BtoFnot({})
    IN IF et \notin (IntTypes \cup FloatTypes)
       THEN [regno |-> 0, rb |-> {}, fatal |-> TRUE]
       ELSE IF i # 0 /\ rgn.cost > 0
       THEN [regno |-> i, fatal |-> FALSE,
             rb |-> IF et \in IntTypes THEN RtoB(i) ELSE FtoB(i)]
       ELSE [regno |-> 0, rb |-> {}, fatal |-> FALSE]

\* allreg(b, r): [regno, rb, fatal]
allreg(m, b, rgn) ==
    LET et == m.var[rgn.varno].etype
        i == IF et \in IntTypes THEN BtoRnot(m.arch, b) ELSE BtoFnot(b)
    IN IF et \notin (IntTypes \cup FloatTypes)
       THEN [regno |-> 0, rb |-> {}, fatal |-> TRUE]
       ELSE IF i # 0 /\ rgn.cost > 0
       THEN [regno |-> i, fatal |-> FALSE,
             rb |-> IF et \in IntTypes THEN RtoB(i) ELSE FtoB(i)]
       ELSE [regno |-> 0, rb |-> {}, fatal |-> FALSE]

\* the move opcode addmove picks for a Var of type et (f = 0: a load)
moveop(et, f) ==
    LET base == CASE et \in {"TINT8", "TUINT8", "TBOOL"} -> "AMOVB"
                  [] et \in {"TINT16", "TUINT16"} -> "AMOVW"
                  [] et \in {"TINT64", "TUINT64", "TPTR64"} -> "AMOVQ"
                  [] et = "TFLOAT32" -> "AMOVSS"
                  [] et = "TFLOAT64" -> "AMOVSD"
                  [] et \in {"TINT32", "TUINT32", "TPTR32"} -> "AMOVL"
                  [] OTHER -> "fatal"
    IN IF f = 0 /\ et = "TUINT8" THEN "AMOVB"
       ELSE IF f = 0 /\ et = "TUINT16" THEN "AMOVW"
       ELSE base

\* addmove: add mov rn,var[bn] (f = 1) or mov var[bn],rn (f = 0) just
\* after the instruction of r
addmove(m, r, bn, rn, f) ==
    LET v == m.var[bn]
        p == m.reg[r].prog
        a == [zaddr EXCEPT !.offset = v.offset, !.etype = v.etype,
                           !.type = "TYPE_MEM", !.name = v.name,
                           !.node = v.node]
        rg == Register(rn)
        p1 == [as |-> moveop(v.etype, f),
               from |-> IF f = 0 THEN a ELSE rg,
               to |-> IF f = 0 THEN rg ELSE a,
               link |-> m.prog[p].link]
    IN IF p1.as = "fatal" THEN [m EXCEPT !.fatal = TRUE]
       ELSE [m EXCEPT !.prog = Append([@ EXCEPT ![p].link = Len(m.prog) + 1],
                                      p1)]

\* addreg: rewrite an operand into register rn
addreg(a, rn) ==
    [a EXCEPT !.sym = "", !.node = 0, !.offset = 0, !.type = "TYPE_REG",
              !.reg = rn, !.name = "NAME_NONE"]

RECURSIVE paint3(_, _, _, _, _)
RECURSIVE paint3fwd(_, _, _, _, _)
RECURSIVE paint3preds(_, _, _, _, _)

\* paint3 loading the variable at every entry of the region
paint3_loadalways(m, r0, bn, rb, rn) ==
    IF bn \in m.reg[r0].act THEN m
    ELSE LET r == paintback(m.reg, r0, bn, TRUE)
             g == m.reg[r]
             m1 == IF bn \in LOAD(g)
                   THEN addmove(m, r, bn, rn, 0) ELSE m
         IN paint3fwd(m1, r, bn, rb, rn)

paint3(m, r0, bn, rb, rn) ==
    IF bn \in m.reg[r0].act THEN m
    ELSE LET r == paintback(m.reg, r0, bn, TRUE)
             g == m.reg[r]
             m1 == IF bn \in (LOAD(g) \ (g.set \ (g.use1 \cup g.use2)))
                   THEN addmove(m, r, bn, rn, 0) ELSE m
         IN paint3fwd(m1, r, bn, rb, rn)

paint3preds(m, p2, bn, rb, rn) ==
    IF p2 = <<>> THEN m
    ELSE paint3preds(IF bn \in m.reg[Head(p2)].refahead
                     THEN paint3(m, Head(p2), bn, rb, rn) ELSE m,
                     Tail(p2), bn, rb, rn)

\* paint3 without the store of the register at the end of a region
paint3fwd_nostore(m, r, bn, rb, rn) ==
    LET g == m.reg[r]
        m1 == [m EXCEPT
                 !.reg[r].act = @ \cup {bn},
                 !.prog[g.prog].from =
                     IF bn \in g.use1 THEN addreg(@, rn) ELSE @,
                 !.prog[g.prog].to =
                     IF bn \in (g.use2 \cup g.set) THEN addreg(@, rn) ELSE @]
        m2 == m1
        m3 == [m2 EXCEPT !.reg[r].regu = @ \cup rb]
        m4 == IF bn \in g.refbehind THEN paint3preds(m3, g.p2, bn, rb, rn)
              ELSE m3
    IN IF bn \notin g.refahead THEN m4
       ELSE LET m5 == IF g.s2 # 0 /\ bn \in m4.reg[g.s2].refbehind
                      THEN paint3(m4, g.s2, bn, rb, rn) ELSE m4
                s1 == g.s1
            IN IF s1 = 0 THEN m5
               ELSE IF bn \in m5.reg[s1].act THEN m5
               ELSE IF bn \notin m5.reg[s1].refbehind THEN m5
               ELSE paint3fwd(m5, s1, bn, rb, rn)

paint3fwd(m, r, bn, rb, rn) ==
    LET g == m.reg[r]
        m1 == [m EXCEPT
                 !.reg[r].act = @ \cup {bn},
                 !.prog[g.prog].from =
                     IF bn \in g.use1 THEN addreg(@, rn) ELSE @,
                 !.prog[g.prog].to =
                     IF bn \in (g.use2 \cup g.set) THEN addreg(@, rn) ELSE @]
        m2 == IF bn \in (STORE(g) \cap g.regdiff)
              THEN addmove(m1, r, bn, rn, 1) ELSE m1
        m3 == [m2 EXCEPT !.reg[r].regu = @ \cup rb]
        s1 == g.s1
        succ1(m5) ==
            IF s1 = 0 THEN m5
            ELSE IF bn \in m5.reg[s1].act THEN m5
            ELSE IF bn \notin m5.reg[s1].refbehind THEN m5
            ELSE paint3fwd(m5, s1, bn, rb, rn)
        succ2(m4) ==
            IF bn \notin g.refahead THEN m4
            ELSE Strict(succ1,
                        IF g.s2 # 0 /\ bn \in m4.reg[g.s2].refbehind
                        THEN paint3(m4, g.s2, bn, rb, rn) ELSE m4)
    IN Strict(succ2,
              IF bn \in g.refbehind THEN paint3preds(m3, g.p2, bn, rb, rn)
              ELSE m3)

\* the nodes on which bit bn of act went from clear (in g0) to set (in g1)
actset(g0, g1, bn) ==
    {r \in DOMAIN g1 : bn \in g1[r].act /\ bn \notin g0[r].act}

\* one iteration of the pass 6 loop, for region[i]
pass6region(m, i) ==
    LET rgn == m.region[i]
        painted(w) ==
            LET al == allreg(w.m, w.vreg, rgn)
                m1 == [w.m EXCEPT !.region[i].regno = al.regno,
                                  !.fatal = @ \/ al.fatal]
                replaced(m2) ==
                    [m2 EXCEPT !.rgnnodes =
                        Append(@, actset(m1.reg, m2.reg, rgn.varno))]
            IN Strict(replaced,
                      IF al.regno # 0
                      THEN paint3(m1, rgn.enter, rgn.varno, al.rb, al.regno)
                      ELSE m1)
    IN Strict(painted, paint2(m, rgn.enter, rgn.varno))

RECURSIVE pass6from(_, _)
pass6from(m, i) ==
    IF i > Len(m.region) \/ m.fatal THEN m
    ELSE pass6from(pass6region(m, i), i + 1)

pass6(m) == pass6from(m, 1)

(***************************************************************************)
(* The peephole optimizer (peep.c).  A peep state ps is the record of the  *)
(* chain (prog), its flow graph (reg) and the generation counter gactive.  *)
(***************************************************************************)
regtyp(a) ==
    /\ a.type = "TYPE_REG"
    /\ \/ (REG_AX <= a.reg /\ a.reg <= REG_DI)
       \/ (REG_X0 <= a.reg /\ a.reg <= REG_X7)

\* the carry bit taken never to be needed
needc_never(pg, p) == FALSE

RECURSIVE needc(_, _)
\* do we need the carry bit: p is the instruction the search starts at
needc(pg, p) ==
    IF p = 0 THEN FALSE
    ELSE IF "UseCarry" \in proginfo(pg[p]).flags THEN TRUE
    ELSE IF proginfo(pg[p]).flags \cap {"SetCarry", "KillCarry"} # {} THEN FALSE
    ELSE needc(pg, pg[p].link)

RECURSIVE rnops(_, _, _)
rnops(pg, g, r) ==
    IF r = 0 THEN 0
    ELSE LET p == pg[g[r].prog]
         IN IF p.as # "ANOP" \/ p.from.type # "TYPE_NONE"
               \/ p.to.type # "TYPE_NONE" THEN r
            ELSE IF uniqs(g, r) = 0 THEN r
            ELSE rnops(pg, g, uniqs(g, r))

\* direct reference
copyas(a, v) ==
    IF a.type # v.type \/ a.name # v.name \/ a.reg # v.reg THEN FALSE
    ELSE IF regtyp(v) THEN TRUE
    ELSE v.type = "TYPE_MEM" /\ v.name \in {"NAME_AUTO", "NAME_PARAM"}
         /\ v.offset = a.offset

\* either direct or indirect
copyau(a, v) ==
    \/ copyas(a, v)
    \/ /\ regtyp(v)
       /\ \/ (a.type = "TYPE_MEM" /\ a.reg = v.reg)
          \/ a.index = v.reg

\* substitute s for v in a (when f = 1): [fail, a]
copysub(a, v, s, f) ==
    IF copyas(a, v)
    THEN [fail |-> 0,
          a |-> IF f = 1 /\ regtyp(Register(s.reg))
                THEN [a EXCEPT !.reg = s.reg] ELSE a]
    ELSE IF regtyp(v)
    THEN IF a.type = "TYPE_MEM" /\ a.reg = v.reg /\ s.reg = REG_BP
            /\ a.index # REG_NONE
         THEN [fail |-> 1, a |-> a]
         ELSE LET a1 == IF a.type = "TYPE_MEM" /\ a.reg = v.reg /\ f = 1
                        THEN [a EXCEPT !.reg = s.reg] ELSE a
              IN [fail |-> 0,
                  a |-> IF a1.index = v.reg /\ f = 1
                        THEN [a1 EXCEPT !.index = s.reg] ELSE a1]
    ELSE [fail |-> 0, a |-> a]

\* copyu(p, v, s): [t, p]; s = zaddr stands for a nil s.
\* t = 1 if v only used (and substituted), 2 if read-alter-rewrite,
\* 3 if set, 4 if set and used, 0 otherwise
copyu(p, v, s) ==
    LET nils == s.type = "TYPE_NONE"
        info == proginfo(p)
        subto == copysub(p.to, v, s, 1)
        subfrom == copysub(p.from, v, s, 1)
        pto == [p EXCEPT !.to = subto.a]
        pfrom == [p EXCEPT !.from = subfrom.a]
        ret(t) == [t |-> t, p |-> p]
    IN
    CASE p.as = "AJMP" ->
            IF ~nils THEN [t |-> IF subto.fail = 1 THEN 1 ELSE 0, p |-> pto]
            ELSE ret(IF copyau(p.to, v) THEN 1 ELSE 0)
      [] p.as = "ARET" -> ret(IF ~nils THEN 1 ELSE 3)
      [] p.as = "ACALL" ->
            IF v.type = p.from.type /\ v.reg = p.from.reg THEN ret(2)
            ELSE IF ~nils
            THEN [t |-> IF subto.fail = 1 THEN 1 ELSE 0, p |-> pto]
            ELSE ret(IF copyau(p.to, v) THEN 4 ELSE 3)
      [] p.as = "ATEXT" -> ret(0)
      [] p.as \in {"AVARDEF", "AVARKILL"} -> ret(0)
      [] OTHER ->
            IF (info.reguse \cup info.regset) \cap RtoB(v.reg) # {} THEN ret(2)
            ELSE IF "LeftAddr" \in info.flags /\ copyas(p.from, v) THEN ret(2)
            ELSE IF {"RightRead", "RightWrite"} \subseteq info.flags
                    /\ copyas(p.to, v) THEN ret(2)
            ELSE IF "RightWrite" \in info.flags /\ copyas(p.to, v)
            THEN IF ~nils THEN [t |-> subfrom.fail, p |-> pfrom]
                 ELSE ret(IF copyau(p.from, v) THEN 4 ELSE 3)
            ELSE IF info.flags \cap {"LeftAddr", "LeftRead", "LeftWrite",
                        "RightAddr", "RightRead", "RightWrite"} # {}
            THEN IF ~nils
                 THEN IF subfrom.fail = 1 THEN [t |-> 1, p |-> pfrom]
                      ELSE LET s2 == copysub(pfrom.to, v, s, 1)
                           IN [t |-> s2.fail, p |-> [pfrom EXCEPT !.to = s2.a]]
                 ELSE ret(IF copyau(p.from, v) \/ copyau(p.to, v)
                          THEN 1 ELSE 0)
            ELSE ret(0)

\* excise the instruction of flow node r of a peep state
pexcise(ps, r) == [ps EXCEPT !.prog[ps.reg[r].prog] = nopout(@)]

\* the test that lets conprop excise p, a set of v0, after p0
conpropsame(p, p0) ==
    /\ p.as = p0.as
    /\ p.from.type = p0.from.type
    /\ p.from.reg = p0.from.reg
    /\ p.from.node = p0.from.node
    /\ p.from.offset = p0.from.offset
    /\ p.from.type = "TYPE_FCONST" /\ p.from.dval = p0.from.dval
    /\ p.from.index = p0.from.index

RECURSIVE conproploop(_, _, _)
conproploop(ps, r0, r) ==
    LET r1 == uniqs(ps.reg, r)
    IN IF r1 = 0 \/ r1 = r0 THEN ps
       ELSE IF uniqp(ps.reg, r1) = 0 THEN ps
       ELSE LET p == ps.prog[ps.reg[r1].prog]
                p0 == ps.prog[ps.reg[r0].prog]
                t == copyu(p, p0.to, zaddr).t
            IN IF t \in {0, 1} THEN conproploop(ps, r0, r1)
               ELSE IF t = 3 /\ conpropsame(p, p0)
               THEN conproploop(pexcise(ps, r1), r0, r1)
               ELSE ps

conprop(ps, r0) == conproploop(ps, r0, r0)

RECURSIVE copy1(_, _, _, _, _)
RECURSIVE copy1loop(_, _, _, _, _)
\* copy1 returns [ok, ps]
copy1(ps, v1, v2, r, f) ==
    IF r = 0 THEN [ok |-> 1, ps |-> ps]
    ELSE IF ps.reg[r].active = ps.gactive THEN [ok |-> 1, ps |-> ps]
    ELSE copy1loop([ps EXCEPT !.reg[r].active = ps.gactive,
                              !.entered = Append(@, r)], v1, v2, r, f)

\* the for loop of copy1 taking no notice of merge points
copy1loop_nomerge(ps, v1, v2, r, f0) ==
    IF r = 0 THEN [ok |-> 1, ps |-> ps]
    ELSE
    LET pt == [ps EXCEPT !.trail = Append(@, r)]
        pid == ps.reg[r].prog
        p == ps.prog[pid]
        f == f0
        at(s) ==
          LET t == s[1].t
              sub == s[2]
              ps1 == [pt EXCEPT !.prog[pid] = sub.p]
              ps2 == IF t = 1 THEN ps1 ELSE pt
              follow(f2) ==
                LET next(w) ==
                      IF w.ok = 0 THEN w
                      ELSE copy1loop(w.ps, v1, v2, ps2.reg[r].s1, f2)
                IN Strict(next,
                          IF ps2.reg[r].s2 # 0
                          THEN copy1(ps2, v1, v2, ps2.reg[r].s2, f2)
                          ELSE [ok |-> 1, ps |-> ps2])
          IN
          IF t = 2 THEN [ok |-> 0, ps |-> pt]
          ELSE IF t = 3 THEN [ok |-> 1, ps |-> pt]
          ELSE IF t \in {1, 4} /\ f # 0 THEN [ok |-> 0, ps |-> pt]
          ELSE IF t \in {1, 4} /\ sub.t # 0 THEN [ok |-> 0, ps |-> ps1]
          ELSE IF t = 4 THEN [ok |-> 1, ps |-> ps1]
          ELSE Strict(follow,
                      IF f = 0 /\ copyu(ps2.prog[pid], v1, zaddr).t \in {2, 3, 4}
                      THEN 1 ELSE f)
    IN Strict(at, <<copyu(p, v2, zaddr), copyu(p, v2, v1)>>)

\* the for loop of copy1, at node r
copy1loop(ps, v1, v2, r, f0) ==
    IF r = 0 THEN [ok |-> 1, ps |-> ps]
    ELSE
    LET pt == [ps EXCEPT !.trail = Append(@, r)]
        pid == ps.reg[r].prog
        p == ps.prog[pid]
        f == IF f0 = 0 /\ uniqp(ps.reg, r) = 0 THEN 1 ELSE f0
        at(s) ==
          LET t == s[1].t
              sub == s[2]
              ps1 == [pt EXCEPT !.prog[pid] = sub.p]
              ps2 == IF t = 1 THEN ps1 ELSE pt
              follow(f2) ==
                LET next(w) ==
                      IF w.ok = 0 THEN w
                      ELSE copy1loop(w.ps, v1, v2, ps2.reg[r].s1, f2)
                IN Strict(next,
                          IF ps2.reg[r].s2 # 0
                          THEN copy1(ps2, v1, v2, ps2.reg[r].s2, f2)
                          ELSE [ok |-> 1, ps |-> ps2])
          IN
          IF t = 2 THEN [ok |-> 0, ps |-> pt]
          ELSE IF t = 3 THEN [ok |-> 1, ps |-> pt]
          ELSE IF t \in {1, 4} /\ f # 0 THEN [ok |-> 0, ps |-> pt]
          ELSE IF t \in {1, 4} /\ sub.t # 0 THEN [ok |-> 0, ps |-> ps1]
          ELSE IF t = 4 THEN [ok |-> 1, ps |-> ps1]
          ELSE Strict(follow,
                      IF f = 0 /\ copyu(ps2.prog[pid], v1, zaddr).t \in {2, 3, 4}
                      THEN 1 ELSE f)
    IN Strict(at, <<copyu(p, v2, zaddr), copyu(p, v2, v1)>>)

\* copyprop going on with the generation of the query before
copyprop_samegeneration(ps, r0) ==
    LET p == ps.prog[ps.reg[r0].prog]
    IN IF copyas(p.from, p.to) THEN [ok |-> 1, ps |-> ps]
       ELSE copy1([ps EXCEPT !.entered = <<>>, !.trail = <<>>],
                  p.from, p.to, ps.reg[r0].s1, 0)

\* copyprop returns [ok, ps]
copyprop(ps, r0) ==
    LET p == ps.prog[ps.reg[r0].prog]
    IN IF copyas(p.from, p.to) THEN [ok |-> 1, ps |-> ps]
       ELSE copy1([ps EXCEPT !.gactive = @ + 1, !.entered = <<>>,
                             !.trail = <<>>], p.from, p.to,
                  ps.reg[r0].s1, 0)

RECURSIVE subpropfind(_, _, _, _)
\* the search loop of subprop: the node of the move to substitute in, or 0
subpropfind(ps, r, v1, v2) ==
    IF r = 0 THEN 0
    ELSE IF uniqs(ps.reg, r) = 0 THEN 0
    ELSE LET p == ps.prog[ps.reg[r].prog]
             info == proginfo(p)
         IN IF p.as \in {"AVARDEF", "AVARKILL"}
            THEN subpropfind(ps, uniqp(ps.reg, r), v1, v2)
            ELSE IF "Call" \in info.flags THEN 0
            ELSE IF info.reguse \cup info.regset # {} THEN 0
            ELSE IF "Move" \in info.flags
                    /\ info.flags \cap {"SizeL", "SizeQ", "SizeF", "SizeD"} # {}
                    /\ p.to.type = v1.type /\ p.to.reg = v1.reg THEN r
            ELSE IF copyau(p.from, v2) \/ copyau(p.to, v2) THEN 0
            ELSE IF copysub(p.from, v1, v2, 0).fail = 1
                    \/ copysub(p.to, v1, v2, 0).fail = 1 THEN 0
            ELSE subpropfind(ps, uniqp(ps.reg, r), v1, v2)

RECURSIVE subpropfix(_, _, _, _, _)
\* the loop after gotit: substitute in every node from r down to r0
subpropfix(ps, r, r0, v1, v2) ==
    IF r = r0 \/ r = 0 THEN ps
    ELSE LET pid == ps.reg[r].prog
             p == ps.prog[pid]
         IN subpropfix([ps EXCEPT
                          !.prog[pid].from = copysub(p.from, v1, v2, 1).a,
                          !.prog[pid].to = copysub(p.to, v1, v2, 1).a],
                       uniqs(ps.reg, r), r0, v1, v2)

\* subprop returns [ok, ps]
subprop(ps, r0) ==
    LET pid0 == ps.reg[r0].prog
        v1 == ps.prog[pid0].from
        v2 == ps.prog[pid0].to
        r == IF regtyp(v1) /\ regtyp(v2)
             THEN subpropfind(ps, uniqp(ps.reg, r0), v1, v2) ELSE 0
    IN IF r = 0 THEN [ok |-> 0, ps |-> ps]
       ELSE LET pid == ps.reg[r].prog
                ps1 == [ps EXCEPT !.prog[pid].to =
                            copysub(@, v1, v2, 1).a]
                ps2 == subpropfix(ps1, uniqs(ps.reg, r), r0, v1, v2)
            IN [ok |-> 1,
                ps |-> [ps2 EXCEPT !.prog[pid0].from.reg = v2.reg,
                                   !.prog[pid0].to.reg = v1.reg]]

\* elimshortmov at one instruction
shortmov(pg, pid) ==
    LET p == pg[pid]
        wide == CASE p.as \in {"AINCB", "AINCW"} -> "AINCL"
                  [] p.as \in {"ADECB", "ADECW"} -> "ADECL"
                  [] p.as \in {"ANEGB", "ANEGW"} -> "ANEGL"
                  [] p.as \in {"ANOTB", "ANOTW"} -> "ANOTL"
                  [] OTHER -> p.as
        full == CASE wide \in {"AMOVB", "AMOVW"} -> "AMOVL"
                  [] wide \in {"AADDB", "AADDW"} ->
                        IF ~needc(pg, p.link) THEN "AADDL" ELSE wide
                  [] wide \in {"ASUBB", "ASUBW"} ->
                        IF ~needc(pg, p.link) THEN "ASUBL" ELSE wide
                  [] wide \in {"AMULB", "AMULW"} -> "AMULL"
                  [] wide \in {"AIMULB", "AIMULW"} -> "AIMULL"
                  [] wide \in {"AANDB", "AANDW"} -> "AANDL"
                  [] wide \in {"AORB", "AORW"} -> "AORL"
                  [] wide \in {"AXORB", "AXORW"} -> "AXORL"
                  [] wide \in {"ASHLB", "ASHLW"} -> "ASHLL"
                  [] OTHER -> wide
        zext == CASE wide = "AMOVB" -> "AMOVBLZX"
                  [] wide = "AMOVW" -> "AMOVWLZX"
                  [] OTHER -> wide
    IN IF ~regtyp(p.to) THEN p.as
       ELSE IF regtyp(p.from) \/ p.from.type = "TYPE_CONST" THEN full
       ELSE zext

RECURSIVE elimshortmov(_, _)
elimshortmov(ps, r) ==
    IF r = 0 THEN ps
    ELSE elimshortmov([ps EXCEPT !.prog[ps.reg[r].prog].as =
                           shortmov(ps.prog, ps.reg[r].prog)],
                      ps.reg[r].link)

RECURSIVE peepconprop(_, _)
\* the constant propagation loop of peep
peepconprop(ps, r) ==
    IF r = 0 THEN ps
    ELSE LET p == ps.prog[ps.reg[r].prog]
             go == \/ /\ p.as = "ALEAL"
                      /\ regtyp(p.to) /\ p.from.sym # ""
                      /\ p.from.index = REG_NONE
                   \/ /\ p.as \in {"AMOVB", "AMOVW", "AMOVL", "AMOVSS", "AMOVSD"}
                      /\ regtyp(p.to)
                      /\ p.from.type \in {"TYPE_CONST", "TYPE_FCONST"}
         IN peepconprop(IF go THEN conprop(ps, r) ELSE ps, ps.reg[r].link)

\* ADDL/ADDW/SUBL/SUBW of +1 or -1 into INC/DEC
incdec(pg, pid) ==
    LET p == pg[pid]
        long == p.as \in {"AADDL", "ASUBL"}
        inc == IF long THEN "AINCL" ELSE "AINCW"
        dec == IF long THEN "ADECL" ELSE "ADECW"
        add == p.as \in {"AADDL", "AADDW"}
    IN IF p.from.type # "TYPE_CONST" \/ needc(pg, p.link) THEN p
       ELSE IF p.from.offset = -1
       THEN [p EXCEPT !.as = IF add THEN dec ELSE inc, !.from = zaddr]
       ELSE IF p.from.offset = 1
       THEN [p EXCEPT !.as = IF add THEN inc ELSE dec, !.from = zaddr]
       ELSE p

\* peep, a MOV between registers, after the second copyprop c2
peepmov3(c2, r) ==
    IF c2.ok = 1 THEN [ps |-> pexcise(c2.ps, r), t |-> 1]
    ELSE [ps |-> c2.ps, t |-> 0]

\* peep, a MOV between registers, after subprop sp
peepmov2(sp, r) ==
    IF sp.ok = 0 THEN [ps |-> sp.ps, t |-> 0]
    ELSE peepmov3(copyprop(sp.ps, r), r)

\* peep, a MOV between registers, after the first copyprop c1
peepmov1(c1, r) ==
    IF c1.ok = 1 THEN [ps |-> pexcise(c1.ps, r), t |-> 1]
    ELSE peepmov2(subprop(c1.ps, r), r)

\* the body of the loop1 sweep of peep at node r: [ps, t]
peepnode(ps, r) ==
    LET pid == ps.reg[r].prog
        p == ps.prog[pid]
        same == [ps |-> ps, t |-> 0]
    IN
    CASE p.as \in {"AMOVL", "AMOVSS", "AMOVSD"} ->
            IF regtyp(p.to) /\ regtyp(p.from)
            THEN peepmov1(copyprop(ps, r), r)
            ELSE same
      [] p.as \in {"AMOVBLZX", "AMOVWLZX", "AMOVBLSX", "AMOVWLSX"} ->
            LET r1 == IF regtyp(p.to)
                      THEN rnops(ps.prog, ps.reg, uniqs(ps.reg, r)) ELSE 0
                p1 == ps.prog[ps.reg[r1].prog]
            IN IF r1 # 0 /\ p.as = p1.as /\ p.to.type = p1.from.type
                  /\ p.to.reg = p1.from.reg
               THEN [ps |-> [ps EXCEPT !.prog[ps.reg[r1].prog].as = "AMOVL"],
                     t |-> 1]
               ELSE same
      [] p.as \in {"AADDL", "AADDW", "ASUBL", "ASUBW"} ->
            [ps |-> [ps EXCEPT !.prog[pid] = incdec(ps.prog, pid)], t |-> 0]
      [] OTHER -> same

RECURSIVE peepsweep(_, _, _)
RECURSIVE peepnext(_, _, _)
\* the sweep goes on at node r after a node gave w = [ps, t]
peepnext(w, r, t) == peepsweep(w.ps, r, t + w.t)

\* one sweep of the loop1 of peep: [ps, t]
peepsweep(ps, r, t) ==
    IF r = 0 THEN [ps |-> ps, t |-> t]
    ELSE peepnext(peepnode(ps, r), ps.reg[r].link, t)

RECURSIVE peeploop1(_)
RECURSIVE peepagain(_)
\* loop1 of peep is entered again when the sweep w = [ps, t] changed something
peepagain(w) == IF w.t # 0 THEN peeploop1(w.ps) ELSE w.ps

peeploop1(ps) == peepagain(peepsweep(ps, 1, 0))

\* MOVSD between registers becomes MOVAPD
movapd(pg) ==
    [i \in DOMAIN pg |->
        IF pg[i].as = "AMOVSD" /\ regtyp(pg[i].from) /\ regtyp(pg[i].to)
        THEN [pg[i] EXCEPT !.as = "AMOVAPD"] ELSE pg[i]]

\* entered and trail are history: the nodes on which copy1 set the mark and
\* the nodes its loop examined, in the query under way
peepstart(pg) ==
    [prog |-> pg, reg |-> flowstart(pg), gactive |-> 0,
     entered |-> <<>>, trail |-> <<>>]

\* peep(firstp): the chain after the peephole pass
peep(pg) ==
    IF Chain(pg) = <<>> THEN pg
    ELSE movapd(peeploop1(peepconprop(elimshortmov(peepstart(pg), 1),
                                      1)).prog)

(***************************************************************************)
(* regopt, passes 6 to 7 and the elimination of NOPs.                      *)
(***************************************************************************)
\* the aux structures left as they are
freeaux_none(m) == m

\* free aux structures: the opt field of the node of every Var is cleared
freeaux(m) ==
    [m EXCEPT !.nodeopt =
        [n \in DOMAIN @ |->
            IF \E i \in DOMAIN m.var : m.var[i].node = n THEN -1 ELSE @[n]]]

\* pass 7 runs unless debug['R'] is set
peepenabled_Ronly(dbg) == dbg.R = 0

\* pass 7 runs unless debug['R'] is set without debug['P']
peepenabled(dbg) == dbg.R = 0 \/ dbg.P # 0

pass7(m) == IF peepenabled(m.debug) THEN [m EXCEPT !.prog = peep(@)] ELSE m

RECURSIVE skipnops(_, _)
\* the first instruction from p on that is not a NOP (0: none)
skipnops(pg, p) ==
    IF p # 0 /\ pg[p].as = "ANOP" THEN skipnops(pg, pg[p].link) ELSE p

\* the elimination of NOPs that leaves the branch operands as they are
elimnops_linksonly(pg, p) ==
    [i \in DOMAIN pg |-> [pg[i] EXCEPT !.link = skipnops(pg, @)]]

RECURSIVE elimnops(_, _)
elimnops(pg, p) ==
    IF p = 0 THEN pg
    ELSE LET pg1 == [pg EXCEPT ![p].link = skipnops(pg, @)]
             pg2 == [pg1 EXCEPT ![p].to.branch =
                        IF pg[p].to.type = "TYPE_BRANCH"
                        THEN skipnops(pg1, @) ELSE @]
         IN elimnops(pg2, pg2[p].link)

\* the chain as the encoder reads it: the instructions in link order,
\* a branch naming the position of its target
RECURSIVE Position(_, _, _)
Position(ch, x, i) ==
    IF i > Len(ch) THEN 0 ELSE IF ch[i] = x THEN i ELSE Position(ch, x, i + 1)

Listing(pg) ==
    LET ch == Chain(pg)
    IN [i \in 1..Len(ch) |->
          [as |-> pg[ch[i]].as, from |-> pg[ch[i]].from,
           to |-> IF pg[ch[i]].to.type = "TYPE_BRANCH"
                  THEN Branch(Position(ch, pg[ch[i]].to.branch, 1))
                  ELSE pg[ch[i]].to]]

(***************************************************************************)
(* The machine state as a record, and back.                                *)
(***************************************************************************)
M == [prog |-> prog, reg |-> reg, var |-> var, nodeopt |-> nodeopt,
      hasdefer |-> hasdefer, arch |-> arch, debug |-> debug, sets |-> sets,
      region |-> region, change |-> change, rgnnodes |-> rgnnodes,
      fatal |-> pc = "fatal"]

Commit(m) ==
    /\ prog' = m.prog
    /\ reg' = m.reg
    /\ var' = m.var
    /\ nodeopt' = m.nodeopt
    /\ sets' = m.sets
    /\ region' = m.region
    /\ change' = m.change
    /\ rgnnodes' = m.rgnnodes

unchangedEnv == UNCHANGED <<debug, alphabet, input, hasdefer, arch>>
unchangedLink == UNCHANGED <<symtab, relocs, lastsym>>
unchangedOpt == UNCHANGED <<prog, reg, var, nodeopt, sets, region, change,
                            rgnnodes, iters, peepin>>

(***************************************************************************)
(* The front end: the chain of one function.                               *)
(***************************************************************************)
VarX == Mem("NAME_AUTO", NodeX, 0, 4, "TINT32")
VarY0 == Mem("NAME_AUTO", NodeY, 0, 4, "TINT32")
VarY4 == Mem("NAME_AUTO", NodeY, 4, 4, "TINT32")
VarF == Mem("NAME_AUTO", NodeF, 0, 8, "TFLOAT64")
VarP == Mem("NAME_PARAM", NodeP, 0, 4, "TINT32")
VarRes == Mem("NAME_PARAM", NodeRes, 8, 4, "TINT32")
VarG == Mem("NAME_EXTERN", NodeG, 0, 4, "TINT32")
VarZ == Mem("NAME_AUTO", NodeZ, 0, 4, "TINT32")

\* a branch to the closing instruction of the chain
ToLast == Branch(-1)

\* link the instructions of a sequence into a chain, resolving ToLast
Link(q) ==
    [i \in 1..Len(q) |->
        [q[i] EXCEPT !.link = IF i < Len(q) THEN i + 1 ELSE 0,
                     !.to.branch = IF @ = -1 THEN Len(q) ELSE @]]

\* a chain ends in RET or, where the front end emits jumps, in a jump back
Closings ==
    {Ins("ARET", zaddr, zaddr)} \cup ({Ins("AJMP", zaddr, Branch(2))} \cap alphabet)

Emit ==
    /\ pc = "emit"
    /\ input # <<>>
    /\ Len(input) < MaxBody + 1
    /\ \E ins \in alphabet : input' = Append(input, ins)
    /\ UNCHANGED <<pc, debug, alphabet, prog, reg, var, nodeopt, hasdefer,
                   arch, sets, region, change, rgnnodes, iters, peepin>>
    /\ unchangedLink

\* regopt is entered with the finished chain
Regopt ==
    /\ pc = "emit"
    /\ Len(input) > 1
    /\ \E last \in Closings :
          LET pg == Link(Append(input, last))
          IN /\ input' = pg
             /\ Commit(regoptenter(M, pg, debug, hasdefer, arch))
    /\ pc' = "pass1"
    /\ UNCHANGED <<debug, alphabet, hasdefer, arch, iters, peepin>>
    /\ unchangedLink

Step(from, to, m) ==
    /\ pc = from
    /\ Commit(m)
    /\ pc' = IF m.fatal THEN "fatal" ELSE to
    /\ UNCHANGED <<iters, peepin>>
    /\ unchangedEnv
    /\ unchangedLink

Pass1 == Step("pass1", "pass2", pass1(M))
Pass2 == Step("pass2", "pass25", pass2(M))
Pass25 == Step("pass25", "loop1", pass25(M))

Loop1 ==
    /\ pc = "loop1"
    /\ \E m \in {loop1(M)} : Commit(m)
    /\ pc' = "loop11"
    /\ iters' = [iters EXCEPT !.loop1 = Min({@ + 1, MaxIter})]
    /\ UNCHANGED peepin
    /\ unchangedEnv
    /\ unchangedLink

Loop11 ==
    /\ pc = "loop11"
    /\ \E w \in {loop11(M)} :
          /\ Commit(w.m)
          /\ pc' = IF w.i # 0 THEN "loop11"
                   ELSE IF w.m.change # 0 THEN "loop1" ELSE "loop2"
    /\ iters' = [iters EXCEPT !.loop11 = Min({@ + 1, MaxIter})]
    /\ UNCHANGED peepin
    /\ unchangedEnv
    /\ unchangedLink

Loop2 ==
    /\ pc = "loop2"
    /\ \E m \in {loop2(M)} :
          /\ Commit(m)
          /\ pc' = IF m.change # 0 THEN "loop2" ELSE "pass45"
    /\ iters' = [iters EXCEPT !.loop2 = Min({@ + 1, MaxIter})]
    /\ UNCHANGED peepin
    /\ unchangedEnv
    /\ unchangedLink

Pass45 == Step("pass45", "pass5", pass45(M))

\* pass 5 ends with the qsort of the regions
Pass5 ==
    /\ pc = "pass5"
    /\ LET m == pass5(M)
       IN \E q \in qsorted(SeqRange(m.region)) :
             Commit([m EXCEPT !.region = q])
    /\ pc' = "pass6"
    /\ UNCHANGED <<iters, peepin>>
    /\ unchangedEnv
    /\ unchangedLink

Pass6 == Step("pass6", "pass7", freeaux(pass6(M)))

\* pass 7 and the elimination of NOPs
Pass7 ==
    Step("pass7", "done",
         [pass7(M) EXCEPT !.prog = elimnops(@, 1)])

NextRegopt ==
    \/ Emit \/ Regopt \/ Pass1 \/ Pass2 \/ Pass25 \/ Loop1 \/ Loop11
    \/ Loop2 \/ Pass45 \/ Pass5 \/ Pass6 \/ Pass7

(***************************************************************************)
(* Specification of regopt over the chains of a small front end.           *)
(***************************************************************************)
nodebug == [R |-> 0, P |-> 0, v |-> 0, w |-> 0]
amd64 == [nacl |-> FALSE, framepointer_enabled |-> FALSE]

Text == Ins("ATEXT", zaddr, zaddr)

Alphabet ==
    {Ins("AMOVL", Const(1), VarX),
     Ins("AADDL", Const(1), VarX),
     Ins("AMOVL", VarX, Register(REG_AX)),
     Ins("AADDL", Const(1), VarY4),
     Ins("ACALL", zaddr, Func("f"))}

InitIdle ==
    /\ prog = <<>>
    /\ reg = <<>>
    /\ var = <<>>
    /\ nodeopt = idle.nodeopt
    /\ sets = zsets
    /\ region = <<>>
    /\ change = 0
    /\ rgnnodes = <<>>
    /\ iters = [loop1 |-> 0, loop11 |-> 0, loop2 |-> 0]
    /\ peepin = <<>>

\* no link context
InitNoLink ==
    /\ symtab = <<>>
    /\ relocs = <<>>
    /\ lastsym = <<>>

Init ==
    /\ pc = "emit"
    /\ debug = nodebug
    /\ hasdefer = FALSE
    /\ arch = amd64
    /\ alphabet = Alphabet
    /\ input = <<Text>>
    /\ InitIdle
    /\ InitNoLink

Spec == Init /\ [][NextRegopt]_vars

(***************************************************************************)
(* regopt from entry to return, as one function of the chain and the       *)
(* environment (the order qsort leaves equal regions in is chosen).        *)
(***************************************************************************)
RECURSIVE loop11all(_)
loop11all(m) ==
    LET w == loop11(m) IN IF w.i # 0 THEN loop11all(w.m) ELSE w.m

RECURSIVE loop1all(_)
loop1all(m) ==
    LET m1 == loop11all(loop1(m))
    IN IF m1.change # 0 THEN loop1all(m1) ELSE m1

RECURSIVE loop2all(_)
loop2all(m) ==
    LET m1 == loop2(m) IN IF m1.change # 0 THEN loop2all(m1) ELSE m1

\* what regopt leaves behind: the listing of the chain, or the abort
outcome(m) ==
    [fatal |-> m.fatal, listing |-> IF m.fatal THEN <<>> ELSE Listing(m.prog)]

\* regopt from the sorted regions on
regoptsorted(m5) ==
    LET m6 == freeaux(pass6(m5))
        m7 == pass7(m6)
    IN IF m6.fatal THEN m6 ELSE [m7 EXCEPT !.prog = elimnops(@, 1)]

\* the outcomes of regopt(firstp) on the chain pg, one for every order
\* qsort may leave the regions in
regopt(pg, dbg, defer, ar) ==
    LET m1 == pass1(regoptstart(pg, dbg, defer, ar))
        m5 == pass5(pass45(loop2all(loop1all(pass25(pass2(m1))))))
    IN IF pg = <<>> THEN {outcome(regoptstart(pg, dbg, defer, ar))}
       ELSE IF m1.fatal THEN {outcome(m1)}
       ELSE {outcome(regoptsorted([m5 EXCEPT !.region = q])) :
                q \in qsorted(SeqRange(m5.region))}

(***************************************************************************)
(* Properties of regopt.                                                   *)
(***************************************************************************)
RegionPairs == {w \in (DOMAIN region) \X (DOMAIN region) : w[1] < w[2]}

\* C7 as stated: after the sort at the end of pass 5 the regions are in
\* non-increasing cost order and, among regions of equal cost, the one with
\* the lower varno comes first.
C7LowerVarnoFirst ==
    pc = "pass6" =>
        \A w \in RegionPairs :
            /\ region[w[1]].cost >= region[w[2]].cost
            /\ region[w[1]].cost = region[w[2]].cost
                  => region[w[1]].varno <= region[w[2]].varno

\* C7 as amended: after the sort at the end of pass 5 the regions are in
\* non-increasing cost order and, among regions of equal cost, the one with
\* the HIGHER varno comes first (rcmp returns p2->varno - p1->varno).
C7HigherVarnoFirst ==
    pc = "pass6" =>
        \A w \in RegionPairs :
            /\ region[w[1]].cost >= region[w[2]].cost
            /\ region[w[1]].cost = region[w[2]].cost
                  => region[w[1]].varno >= region[w[2]].varno

\* the sort has run on two regions of equal cost and different varno
C7Witness ==
    /\ pc = "pass6"
    /\ \E w \in RegionPairs : /\ region[w[1]].cost = region[w[2]].cost
                              /\ region[w[1]].varno # region[w[2]].varno

\* C2: after pass 6, two committed regions (regno # 0) that were given the
\* same register have no flow node in common.
C2DisjointRegions ==
    pc \in {"pass7", "done"} =>
        \A w \in RegionPairs :
            (region[w[1]].regno # 0 /\ region[w[1]].regno = region[w[2]].regno)
                => rgnnodes[w[1]] \cap rgnnodes[w[2]] = {}

\* pass 6 has committed the regions of two variables to one register
C2Witness ==
    /\ pc = "pass7"
    /\ \E w \in RegionPairs : /\ region[w[1]].regno # 0
                              /\ region[w[1]].regno = region[w[2]].regno
                              /\ rgnnodes[w[1]] # {}
                              /\ rgnnodes[w[2]] # {}
                              /\ region[w[1]].varno # region[w[2]].varno

(***************************************************************************)
(* Where the value of a variable is, along the paths of the rewritten      *)
(* chain.  pg is the chain pass 6 left, inp the chain regopt was entered   *)
(* with: the instructions of inp keep their index in pg, the moves addmove *)
(* spliced in have the indices above.                                      *)
(***************************************************************************)
SameVar(o, a) ==
    /\ o.type = "TYPE_MEM"
    /\ o.name = a.name
    /\ o.node = a.node
    /\ o.offset = a.offset

\* the variables the chain refers to
Tracked(inp) ==
    {o \in {inp[i].from : i \in DOMAIN inp} \cup {inp[i].to : i \in DOMAIN inp} :
        o.type = "TYPE_MEM" /\ o.node # 0}

flowsucc(pg, n) ==
    LET p == pg[n]
    IN IF p.as = "ARET" THEN {}
       ELSE IF p.as = "AJMP" THEN {p.to.branch} \ {0}
       ELSE ({p.link} \cup (IF p.to.type = "TYPE_BRANCH" THEN {p.to.branch}
                            ELSE {})) \ {0}

RECURSIVE ReachFrom(_, _, _)
\* the nodes entered on a path from the nodes R that leaves no node of stop
ReachFrom(pg, R, stop) ==
    LET N == R \cup UNION {flowsucc(pg, n) : n \in R \ stop}
    IN IF N = R THEN R ELSE ReachFrom(pg, N, stop)

origreads(inp, n, a) ==
    /\ n \in DOMAIN inp
    /\ \/ SameVar(inp[n].from, a) /\ "LeftRead" \in proginfo(inp[n]).flags
       \/ SameVar(inp[n].to, a) /\ "RightRead" \in proginfo(inp[n]).flags

origwrites(inp, n, a) ==
    /\ n \in DOMAIN inp
    /\ SameVar(inp[n].to, a)
    /\ "RightWrite" \in proginfo(inp[n]).flags

live(pg, n) == pg[n].as # "ANOP"

\* node n writes the variable into a register / reads it from one
regwrite(pg, inp, n, a) ==
    live(pg, n) /\ origwrites(inp, n, a) /\ pg[n].to.type = "TYPE_REG"
regreadfrom(pg, inp, n, a) ==
    /\ live(pg, n) /\ n \in DOMAIN inp
    /\ SameVar(inp[n].from, a) /\ "LeftRead" \in proginfo(inp[n]).flags
    /\ pg[n].from.type = "TYPE_REG"
regreadto(pg, inp, n, a) ==
    /\ live(pg, n) /\ n \in DOMAIN inp
    /\ SameVar(inp[n].to, a) /\ "RightRead" \in proginfo(inp[n]).flags
    /\ pg[n].to.type = "TYPE_REG"

\* node n reads the memory slot / writes it
memread(pg, n, a) ==
    /\ live(pg, n)
    /\ \/ SameVar(pg[n].from, a) /\ "LeftRead" \in proginfo(pg[n]).flags
       \/ SameVar(pg[n].to, a) /\ "RightRead" \in proginfo(pg[n]).flags
memwrite(pg, n, a) ==
    live(pg, n) /\ SameVar(pg[n].to, a)
        /\ "RightWrite" \in proginfo(pg[n]).flags

\* the moves addmove spliced in for the variable
spliced(pg, inp, n) == n \in DOMAIN pg /\ n \notin DOMAIN inp
isload(pg, inp, n, a) ==
    spliced(pg, inp, n) /\ SameVar(pg[n].from, a) /\ pg[n].to.type = "TYPE_REG"
isstore(pg, inp, n, a) ==
    spliced(pg, inp, n) /\ SameVar(pg[n].to, a) /\ pg[n].from.type = "TYPE_REG"

\* the variable is read on a path from node n on, before it is overwritten
liveafter(pg, inp, n, a) ==
    \E u \in ReachFrom(pg, flowsucc(pg, n),
                       {k \in DOMAIN inp : live(pg, k) /\ origwrites(inp, k, a)
                                           /\ ~origreads(inp, k, a)}) :
        live(pg, u) /\ origreads(inp, u, a)

\* The place of the variable's current value on entry to a node: h is the
\* register that holds it (0: none does), d says that the memory slot does
\* not.  A CALL leaves no register holding anything.
srcstate == [h |-> 0, d |-> FALSE]

valuestep(pg, inp, n, st, a) ==
    LET p == pg[n]
    IN IF ~live(pg, n) THEN st
       ELSE IF p.as = "ACALL" THEN [st EXCEPT !.h = 0]
       ELSE IF isload(pg, inp, n, a) THEN [st EXCEPT !.h = p.to.reg]
       ELSE IF isstore(pg, inp, n, a) THEN [st EXCEPT !.d = FALSE]
       ELSE IF regwrite(pg, inp, n, a) THEN [h |-> p.to.reg, d |-> TRUE]
       ELSE IF memwrite(pg, n, a) THEN [h |-> 0, d |-> FALSE]
       ELSE IF /\ p.to.type = "TYPE_REG" /\ p.to.reg = st.h
               /\ "RightWrite" \in proginfo(p).flags
            THEN [st EXCEPT !.h = 0]
       ELSE st

\* node n, entered in state st, uses a copy of the variable that is not
\* its current value
valuelost(pg, inp, n, st, a) ==
    LET p == pg[n]
    IN \/ p.as = "ACALL" /\ live(pg, n) /\ st.d /\ liveafter(pg, inp, n, a)
       \/ isstore(pg, inp, n, a) /\ st.h # p.from.reg
       \/ regreadfrom(pg, inp, n, a) /\ st.h # p.from.reg
       \/ regreadto(pg, inp, n, a) /\ st.h # p.to.reg
       \/ memread(pg, n, a) /\ st.d

RECURSIVE valuestates(_, _, _, _)
\* every <<node, state>> some path from the first instruction enters
valuestates(pg, inp, S, a) ==
    LET N == S \cup UNION {{<<k, valuestep(pg, inp, e[1], e[2], a)>> :
                               k \in flowsucc(pg, e[1])} : e \in S}
    IN IF N = S THEN S ELSE valuestates(pg, inp, N, a)

entrystates(pg, inp, a) == valuestates(pg, inp, {<<1, srcstate>>}, a)

\* the CALLs that a register write of the variable reaches and after which
\* the variable is still read
callsacross(pg, inp, a) ==
    {c \in DOMAIN pg :
        /\ live(pg, c) /\ pg[c].as = "ACALL"
        /\ \E w \in DOMAIN inp :
              /\ regwrite(pg, inp, w, a)
              /\ c \in ReachFrom(pg, flowsucc(pg, w),
                                 {k \in DOMAIN inp : regwrite(pg, inp, k, a)
                                                     \/ memwrite(pg, k, a)})
        /\ liveafter(pg, inp, c, a)}

\* a store of the variable stands between its last write and CALL c
storedbefore(pg, inp, c, a) ==
    \A e \in entrystates(pg, inp, a) : e[1] = c => ~e[2].d

\* a spliced load stands between CALL c and the next read of the variable
loadedafter(pg, inp, c, a) ==
    ~\E u \in ReachFrom(pg, flowsucc(pg, c),
                        {k \in DOMAIN pg :
                            \/ isload(pg, inp, k, a)
                            \/ live(pg, k) /\ origwrites(inp, k, a)
                                           /\ ~origreads(inp, k, a)}) :
        live(pg, u) /\ origreads(inp, u, a)

\* C1 as stated: for a variable that a region writes in a register and that
\* is still used after a later CALL, a store to its memory slot is spliced
\* in after the last write and before the CALL, and a load from the slot
\* into a register is spliced in after the CALL and before the next use.
C1StoreAndLoadSpliced ==
    pc = "pass7" =>
        \A a \in Tracked(input) : \A c \in callsacross(prog, input, a) :
            /\ storedbefore(prog, input, c, a)
            /\ loadedafter(prog, input, c, a)

\* C1 as amended: for a variable that a region writes in a register and
\* that is still used after a later CALL, a store to its memory slot is
\* spliced in after the last write and before the CALL; a use after the
\* CALL that is rewritten to a register has a spliced load between the CALL
\* and itself, and a use that is not rewritten reads the memory slot; on no
\* path does a CALL execute while the current value is only in a register,
\* and every read of the variable, from a register or from memory, reads
\* its current value.
C1ValueNeverLost ==
    pc = "pass7" =>
        \A a \in Tracked(input) :
            /\ \A c \in callsacross(prog, input, a) :
                  storedbefore(prog, input, c, a)
            /\ \A e \in entrystates(prog, input, a) :
                  ~valuelost(prog, input, e[1], e[2], a)

\* a region wrote the variable in a register before a CALL, pass 6 spliced
\* in a store before the CALL and a load after it
C1Witness ==
    /\ pc = "pass7"
    /\ \E a \in Tracked(input) : \E c \in callsacross(prog, input, a) :
          /\ \E n \in DOMAIN prog : isstore(prog, input, n, a)
          /\ \E n \in DOMAIN prog : isload(prog, input, n, a)
          /\ loadedafter(prog, input, c, a)

(***************************************************************************)
(* Specification of regopt over chains with branches: back edges, code     *)
(* that no path reaches, chains without a RET.  regopt runs to its end     *)
(* without waiting for anything, which is the weak fairness of its steps.  *)
(***************************************************************************)
AlphabetFlow ==
    {Ins("AMOVL", Const(1), VarX),
     Ins("AMOVL", VarX, Register(REG_AX)),
     Ins("AJNE", zaddr, Branch(2)),
     Ins("AJMP", zaddr, Branch(2))}

InitFlow ==
    /\ pc = "emit"
    /\ debug = nodebug
    /\ hasdefer = FALSE
    /\ arch = amd64
    /\ alphabet = AlphabetFlow
    /\ input = <<Text>>
    /\ InitIdle
    /\ InitNoLink

SpecFlow ==
    /\ InitFlow
    /\ [][NextRegopt]_vars
    /\ WF_vars(Loop1) /\ WF_vars(Loop11) /\ WF_vars(Loop2)

\* C4: on every finite flow graph the backward fixpoint of pass 3 (loop1,
\* loop11) and the forward fixpoint of pass 4 (loop2) each come to a sweep
\* that leaves change at 0, and regopt goes on to the next pass.
C4FixpointsTerminate ==
    /\ (pc = "loop1") ~> (pc = "loop2")
    /\ (pc = "loop2") ~> (pc = "pass45")

\* both fixpoints have ended, after more than one sweep each, on a chain
\* with a back edge
C4Witness ==
    /\ pc = "pass45"
    /\ iters.loop1 >= 2
    /\ iters.loop11 >= 2
    /\ iters.loop2 >= 2
    /\ \E i \in DOMAIN input : /\ input[i].to.type = "TYPE_BRANCH"
                               /\ input[i].to.branch <= i

(***************************************************************************)
(* Specification of regopt over chains that take the address of a piece    *)
(* of the two-word local y.                                                *)
(***************************************************************************)
AlphabetAddr ==
    {Ins("ALEAL", AddrOf(VarY0), Register(REG_BX)),
     Ins("AMOVL", Const(1), VarY0),
     Ins("AMOVL", Const(1), VarY4),
     Ins("AADDL", Const(1), VarY4),
     Ins("AMOVL", VarY4, Register(REG_AX))}

InitAddr ==
    /\ pc = "emit"
    /\ debug = nodebug
    /\ hasdefer = FALSE
    /\ arch = amd64
    /\ alphabet = AlphabetAddr
    /\ input = <<Text>>
    /\ InitIdle
    /\ InitNoLink

SpecAddr == InitAddr /\ [][NextRegopt]_vars

\* the operands of instruction p whose address p takes
addrtaken(p) ==
    {a \in {p.from, p.to} : a.type = "TYPE_ADDR"}
    \cup (IF "LeftAddr" \in proginfo(p).flags THEN {p.from} ELSE {})
    \cup (IF "RightAddr" \in proginfo(p).flags THEN {p.to} ELSE {})

\* the storage nodes of the tracked variables whose address the chain takes
addrnodes(inp) ==
    {a.node : a \in {b \in UNION {addrtaken(inp[i]) : i \in DOMAIN inp} :
                        b.name \in {"NAME_AUTO", "NAME_PARAM"} /\ b.node > 0}}

\* C3: if an instruction takes the address of a tracked variable, then
\* wherever the instruction stands, no Var of that storage node (those
\* first seen after the instruction included) becomes the varno of a
\* region or has an operand rewritten to a register.
C3NoRegionOnAddressTaken ==
    pc \in {"pass6", "pass7", "done"} =>
        /\ \A k \in DOMAIN region :
              var[region[k].varno].node \notin addrnodes(input)
        /\ \A n \in DOMAIN input :
              /\ (input[n].from.type = "TYPE_MEM"
                    /\ input[n].from.node \in addrnodes(input))
                     => prog[n].from.type # "TYPE_REG"
              /\ (input[n].to.type = "TYPE_MEM"
                    /\ input[n].to.node \in addrnodes(input))
                     => prog[n].to.type # "TYPE_REG"

(***************************************************************************)
(* Specification of peep on its own: a register-only chain is assembled    *)
(* and peep is run on it, and then run again on what it left.              *)
(***************************************************************************)
AlphabetPeep ==
    {Ins("AMOVL", Const(5), Register(REG_AX)),
     Ins("AMOVSD", FConst(1), Register(REG_X0)),
     Ins("AMOVSD", Register(REG_X0), Register(REG_X0)),
     Ins("AMOVL", Register(REG_AX), Register(REG_BX)),
     Ins("AADDL", Register(REG_BX), Register(REG_AX))}

InitPeep ==
    /\ pc = "emit"
    /\ debug = nodebug
    /\ hasdefer = FALSE
    /\ arch = amd64
    /\ alphabet = AlphabetPeep
    /\ input = <<Text>>
    /\ InitIdle
    /\ InitNoLink

\* peep is entered with the finished chain
PeepEnter ==
    /\ pc = "emit"
    /\ Len(input) > 1
    /\ \E last \in Closings :
          /\ input' = Link(Append(input, last))
          /\ prog' = Link(Append(input, last))
    /\ pc' = "peep"
    /\ UNCHANGED <<debug, alphabet, reg, var, nodeopt, hasdefer, arch, sets,
                   region, change, rgnnodes, iters, peepin>>
    /\ unchangedLink

\* peep(firstp), on the chain as assembled and on the chain peep left
Peep ==
    /\ pc \in {"peep", "peeped"}
    /\ peepin' = prog
    /\ prog' = peep(prog)
    /\ pc' = IF pc = "peep" THEN "peeped" ELSE "peeped2"
    /\ UNCHANGED <<debug, alphabet, input, reg, var, nodeopt, hasdefer, arch,
                   sets, region, change, rgnnodes, iters>>
    /\ unchangedLink

NextPeep == Emit \/ PeepEnter \/ Peep

SpecPeep == InitPeep /\ [][NextPeep]_vars

\* instruction p is a MOV of a constant into a register
movconst(p) ==
    /\ p.as \in {"AMOVB", "AMOVW", "AMOVL", "AMOVSS", "AMOVSD"}
    /\ p.from.type \in {"TYPE_CONST", "TYPE_FCONST"}
    /\ regtyp(p.to)

\* instruction p writes or read-modifies register operand v
writesreg(p, v) ==
    /\ p.to.type = "TYPE_REG" /\ p.to.reg = v.reg
    /\ "RightWrite" \in proginfo(p).flags

\* the pairs i < j of a straight chain pg: two MOVs of one constant, with
\* one opcode, into one register that nothing between them writes
sameconst(pg) ==
    {w \in (DOMAIN pg) \X (DOMAIN pg) :
        /\ w[1] < w[2]
        /\ movconst(pg[w[1]])
        /\ pg[w[2]].as = pg[w[1]].as
        /\ pg[w[2]].from = pg[w[1]].from
        /\ pg[w[2]].to = pg[w[1]].to
        /\ \A k \in (w[1] + 1)..(w[2] - 1) : ~writesreg(pg[k], pg[w[1]].to)}

\* C5: a MOV of a constant (integer or floating) into R that follows, with
\* no write of R in between, a MOV with the same opcode of the same
\* constant into R is excised by peep.
C5SecondConstMovExcised ==
    pc = "peeped" =>
        \A w \in sameconst(peepin) : prog[w[2]].as = "ANOP"

\* C6: a second run of peep on the chain a first run left changes no
\* opcode and no operand and excises nothing: peep(peep(P)) = peep(P).
C6PeepIdempotent ==
    pc = "peeped2" => prog = peepin

(***************************************************************************)
(* The link context: the symbol table (Link.hash, LSym) and the            *)
(* relocations of the symbols (LSym.r, Reloc).                             *)
(***************************************************************************)
LINKHASH == 100003

\* a symbol name is the sequence of its character codes
NameAd == <<97, 100>>
NameBa == <<98, 97>>
NameA == <<97>>

RECURSIVE hashname(_, _, _)
hashname(h, name, i) ==
    IF i > Len(name) THEN h ELSE hashname(3 * h + name[i], name, i + 1)

\* the bucket of (name, v) in Link.hash
linkhash(name, v) == (hashname(v, name, 1) % 16777216) % LINKHASH

zreloc == [off |-> 0, siz |-> 0]

\* linknewsym: a fresh LSym, with no bytes and no relocations
linknewsym(name, v) == [name |-> name, version |-> v, hash |-> 0, np |-> 0]

\* Link.hash[h], nil (0) for a bucket never filled
hashhead(ctxt, h) == IF h \in DOMAIN ctxt.hash THEN ctxt.hash[h] ELSE 0

\* linklookup with a chain search that compares the version only
linklookup_versiononly(ctxt, name, v) ==
    LET h == linkhash(name, v)
        RECURSIVE find(_)
        find(s) == IF s = 0 THEN 0
                   ELSE IF ctxt.syms[s].version = v THEN s
                   ELSE find(ctxt.syms[s].hash)
        s == find(hashhead(ctxt, h))
        new == Len(ctxt.syms) + 1
    IN IF s # 0 THEN [ctxt |-> ctxt, s |-> s]
       ELSE [ctxt |->
               [syms |-> Append(ctxt.syms,
                           [linknewsym(name, v) EXCEPT !.hash = hashhead(ctxt, h)]),
                hash |-> [b \in DOMAIN ctxt.hash \cup {h} |->
                             IF b = h THEN new ELSE ctxt.hash[b]]],
             s |-> new]

\* linklookup(ctxt, name, v): look the symbol up, creating it when it is
\* not there; [ctxt, s]
linklookup(ctxt, name, v) ==
    LET h == linkhash(name, v)
        RECURSIVE find(_)
        find(s) == IF s = 0 THEN 0
                   ELSE IF ctxt.syms[s].version = v /\ ctxt.syms[s].name = name
                   THEN s
                   ELSE find(ctxt.syms[s].hash)
        s == find(hashhead(ctxt, h))
        new == Len(ctxt.syms) + 1
    IN IF s # 0 THEN [ctxt |-> ctxt, s |-> s]
       ELSE [ctxt |->
               [syms |-> Append(ctxt.syms,
                           [linknewsym(name, v) EXCEPT !.hash = hashhead(ctxt, h)]),
                hash |-> [b \in DOMAIN ctxt.hash \cup {h} |->
                             IF b = h THEN new ELSE ctxt.hash[b]]],
             s |-> new]

\* addrel(s): append a Reloc to s->r and return it; it is given the
\* symbol only, the caller fills in the Reloc it gets
addrel(rs, s) == [rs EXCEPT ![s] = Append(@, zreloc)]

\* symgrow(ctxt, s, siz): s has at least siz bytes
symgrow(ctxt, s, siz) ==
    [ctxt EXCEPT !.syms[s].np = IF @ < siz THEN siz ELSE @]

\* adduint8(ctxt, s, v): one more byte
adduint8(ctxt, s) == [ctxt EXCEPT !.syms[s].np = @ + 1]

Names == {NameAd, NameBa, NameA}
Versions == {0, 1}
Keys == Names \X Versions

\* the sizes a caller grows a symbol to, and the (off, siz) it writes
\* into a Reloc
GrowSizes == {8, 50}
RelocFields == {<<0, 4>>, <<4, 4>>, <<100, 8>>}

linkbusy == lastsym.ops < MaxLinkOps

\* s = linklookup(ctxt, name, v)
LinkLookup ==
    /\ pc = "link"
    /\ linkbusy
    /\ \E k \in Keys :
         \E res \in {linklookup(symtab, k[1], k[2])} :
           /\ symtab' = res.ctxt
           /\ relocs' = IF res.s > Len(relocs) THEN Append(relocs, <<>>)
                        ELSE relocs
           /\ lastsym' = [lastsym EXCEPT
                            !.s = res.s, !.r = 0, !.ops = @ + 1,
                            !.seen[k] = @ \cup {res.s},
                            !.calls[k] = Min({@ + 1, MaxLinkOps})]
    /\ UNCHANGED <<pc>>
    /\ unchangedEnv
    /\ unchangedOpt

\* symgrow(ctxt, s, siz)
Symgrow ==
    /\ pc = "link"
    /\ linkbusy
    /\ lastsym.s # 0
    /\ \E siz \in GrowSizes : symtab' = symgrow(symtab, lastsym.s, siz)
    /\ lastsym' = [lastsym EXCEPT !.ops = @ + 1]
    /\ UNCHANGED <<pc, relocs>>
    /\ unchangedEnv
    /\ unchangedOpt

\* adduint8(ctxt, s, v)
Adduint8 ==
    /\ pc = "link"
    /\ linkbusy
    /\ lastsym.s # 0
    /\ symtab' = adduint8(symtab, lastsym.s)
    /\ lastsym' = [lastsym EXCEPT !.ops = @ + 1]
    /\ UNCHANGED <<pc, relocs>>
    /\ unchangedEnv
    /\ unchangedOpt

\* r = addrel(s)
Addrel ==
    /\ pc = "link"
    /\ linkbusy
    /\ lastsym.s # 0
    /\ relocs' = addrel(relocs, lastsym.s)
    /\ lastsym' = [lastsym EXCEPT !.r = Len(relocs[lastsym.s]) + 1,
                                  !.ops = @ + 1]
    /\ UNCHANGED <<pc, symtab>>
    /\ unchangedEnv
    /\ unchangedOpt

\* r->off = off; r->siz = siz, on the Reloc addrel returned
RelocFill ==
    /\ pc = "link"
    /\ lastsym.r # 0
    /\ relocs[lastsym.s][lastsym.r] = zreloc
    /\ \E f \in RelocFields :
         relocs' = [relocs EXCEPT ![lastsym.s][lastsym.r] =
                      [off |-> f[1], siz |-> f[2]]]
    /\ lastsym' = [lastsym EXCEPT !.r = 0]
    /\ UNCHANGED <<pc, symtab>>
    /\ unchangedEnv
    /\ unchangedOpt

NextLink == LinkLookup \/ Symgrow \/ Adduint8 \/ Addrel \/ RelocFill

InitLink ==
    /\ pc = "link"
    /\ debug = nodebug
    /\ hasdefer = FALSE
    /\ arch = amd64
    /\ alphabet = {}
    /\ input = <<>>
    /\ InitIdle
    /\ symtab = [syms |-> <<>>, hash |-> <<>>]
    /\ relocs = <<>>
    /\ lastsym = [s |-> 0, r |-> 0, ops |-> 0,
                  seen |-> [k \in Keys |-> {}],
                  calls |-> [k \in Keys |-> 0]]

SpecLink == InitLink /\ [][NextLink]_vars

\* the key of a symbol
symkey(s) == <<symtab.syms[s].name, symtab.syms[s].version>>

\* C9: every lookup of one (name, version) returns the same symbol, the
\* table holds at most one symbol of a key, and the symbols returned for
\* two different keys are different.
C9LookupIdempotent ==
    pc = "link" =>
      /\ \A k \in Keys : Cardinality(lastsym.seen[k]) <= 1
      /\ \A k \in Keys : \A s \in lastsym.seen[k] : symkey(s) = k
      /\ \A a, b \in DOMAIN symtab.syms : symkey(a) = symkey(b) => a = b
      /\ \A j, k \in Keys :
           j # k => lastsym.seen[j] \cap lastsym.seen[k] = {}

\* a key looked up twice, found behind another symbol of its bucket
C9Witness ==
    /\ pc = "link"
    /\ \E k \in Keys :
         /\ lastsym.calls[k] >= 2
         /\ \E s \in lastsym.seen[k] :
              \E t \in DOMAIN symtab.syms :
                /\ t # s
                /\ linkhash(symtab.syms[t].name, symtab.syms[t].version)
                     = linkhash(k[1], k[2])

\* C8: every relocation of a symbol lies inside the bytes of the symbol.
C8RelocInRange ==
    pc = "link" =>
      \A s \in DOMAIN relocs : \A i \in DOMAIN relocs[s] :
        /\ 0 <= relocs[s][i].off
        /\ relocs[s][i].off + relocs[s][i].siz <= symtab.syms[s].np

(***************************************************************************)
(* regopt under the settings of the debug flags.                           *)
(***************************************************************************)
DebugSettings == [R : {0, 1}, P : {0, 1}, v : {0, 1}, w : {0, 2}]

AlphabetDebug ==
    {Ins("AMOVL", Const(1), VarX),
     Ins("AMOVL", VarY0, Register(REG_AX)),
     Ins("AMOVL", VarY4, Register(REG_AX)),
     Ins("AMOVL", VarZ, Register(REG_AX))}

InitDebug ==
    /\ pc = "emit"
    /\ debug \in DebugSettings
    /\ hasdefer = FALSE
    /\ arch = amd64
    /\ alphabet = AlphabetDebug
    /\ input = <<Text>>
    /\ InitIdle
    /\ InitNoLink

SpecDebug == InitDebug /\ [][NextRegopt]_vars

\* regopt has returned or aborted
returned == pc \in {"done", "fatal"}

\* what the run has left behind
leftbehind == [fatal |-> pc = "fatal",
         listing |-> IF pc = "fatal" THEN <<>> ELSE Listing(prog)]

\* the flags with everything dropped but the two tests regopt and mkvar
\* make of them
tested(dbg) ==
    [R |-> IF dbg.R # 0 /\ dbg.P = 0 THEN 1 ELSE 0, P |-> 0, v |-> 0,
     w |-> IF dbg.w > 1 THEN 2 ELSE 0]

\* C10 as stated: whatever the debug flags, regopt leaves behind what it
\* leaves with all of them clear, and aborts only if it aborts then.
C10DebugNoEffect ==
    returned => leftbehind \in regopt(input, nodebug, hasdefer, arch)

\* C10 as amended: the debug flags reach what regopt leaves behind only
\* through the test !debug['R'] || debug['P'] before peep and the test
\* debug['w'] > 1 at the NVAR cap; two settings that agree on both tests
\* leave the same chain and abort alike.
C10DebugOnlyThroughTests ==
    returned => leftbehind \in regopt(input, tested(debug), hasdefer, arch)

\* regopt has returned under -R -P -v with a chain peep has changed
C10Witness ==
    /\ pc = "done"
    /\ debug = [R |-> 1, P |-> 1, v |-> 1, w |-> 0]
    /\ leftbehind \notin regopt(input, [R |-> 1, P |-> 0, v |-> 0, w |-> 0],
                          hasdefer, arch)

(***************************************************************************)
(* Specification of regopt over chains that refer to more storage          *)
(* locations than the Var table holds, some of them overlapping pieces of  *)
(* the two-word local y, with and without -w -w.                           *)
(***************************************************************************)
\* the upper half of the first word of y
VarY2 == Mem("NAME_AUTO", NodeY, 2, 2, "TINT16")

AlphabetVars ==
    {Ins("AMOVL", Const(1), VarX),
     Ins("AMOVL", VarY0, Register(REG_AX)),
     Ins("AMOVL", Const(1), VarY4),
     Ins("AMOVW", Const(1), VarY2),
     Ins("ACALL", zaddr, Func("f"))}

InitVars ==
    /\ pc = "emit"
    /\ debug \in {nodebug, [nodebug EXCEPT !.w = 2]}
    /\ hasdefer = FALSE
    /\ arch = amd64
    /\ alphabet = AlphabetVars
    /\ input = <<Text>>
    /\ InitIdle
    /\ InitNoLink

SpecVars == InitVars /\ [][NextRegopt]_vars

\* the storage locations the chain refers to
memoperands(inp) ==
    {a \in UNION {{inp[i].from, inp[i].to} : i \in DOMAIN inp} :
        a.type = "TYPE_MEM" /\ a.node > 0}

\* the Vars that track the location a
located(a) ==
    {j \in DOMAIN var : /\ var[j].node = a.node /\ var[j].name = a.name
                        /\ var[j].offset = a.offset /\ var[j].etype = a.etype
                        /\ var[j].width = a.width}

\* the locations of the chain that pass 1 left without a Var
missed == {a \in memoperands(input) : located(a) = {}}

pass1done == pc \notin {"emit", "pass1"}

\* mkvar gave the operands that refer to a missed location no bit
missednobit ==
    \A r \in DOMAIN reg :
        /\ input[r].from \in missed => reg[r].use1 \subseteq REGBITS
        /\ input[r].to \in missed =>
              /\ reg[r].set \subseteq REGBITS
              /\ reg[r].use2 \subseteq REGBITS

\* every Var of the node of a missed location is marked, and in addrs
missedmarked ==
    \A a \in missed : \A j \in DOMAIN var :
        var[j].node = a.node => var[j].addr # 0 /\ j \in sets.addrs

\* no Var of the node of a missed location got a region or a register
missedinmemory ==
    pc \in {"pass6", "pass7", "done"} =>
        \A a \in missed :
            /\ \A k \in DOMAIN region : var[region[k].varno].node # a.node
            /\ \A n \in DOMAIN input :
                  /\ (input[n].from.type = "TYPE_MEM"
                        /\ input[n].from.node = a.node)
                         => prog[n].from.type # "TYPE_REG"
                  /\ (input[n].to.type = "TYPE_MEM"
                        /\ input[n].to.node = a.node)
                         => prog[n].to.type # "TYPE_REG"

\* C11 as stated: when mkvar meets a location that is not tracked while
\* nvar has reached NVAR, it returns the empty set, creates no Var,
\* never aborts the compilation, and marks every Var of the same storage
\* node as address-escaped, so that none of them is registerized.
C11CapNeverAborts ==
    (pass1done /\ missed # {}) =>
        /\ pc # "fatal"
        /\ Cardinality(DOMAIN var) = NVAR
        /\ (pc = "pass2" => missednobit)
        /\ missedmarked
        /\ missedinmemory

\* C11, amended: when mkvar meets a location that is not tracked while
\* nvar has reached NVAR, then under -w -w (debug['w'] > 1) it aborts the
\* compilation; otherwise it returns the empty set, creates no Var (nvar
\* stays at NVAR) and marks every Var of the same storage node as
\* address-escaped, so that none of them is registerized.
C11CapMarksOrAborts ==
    (pass1done /\ missed # {}) =>
        IF debug.w > 1 THEN pc = "fatal"
        ELSE /\ pc # "fatal"
             /\ Cardinality(DOMAIN var) = NVAR
             /\ (pc = "pass2" => missednobit)
             /\ missedmarked
             /\ missedinmemory

\* regopt returned on a chain where a piece of y was missed while another
\* piece of y that does not overlap it was tracked (and so marked)
C11Witness ==
    /\ pc = "done"
    /\ debug.w = 0
    /\ \E a \in missed : \E j \in DOMAIN var :
          /\ var[j].node = a.node
          /\ ~overlap(var[j].offset, var[j].width, a.offset, a.width)
          /\ var[j].addr = 1

\* the bytes [offset, offset+width) of Var j
bytesof(j) == var[j].offset..(var[j].offset + var[j].width - 1)

\* the pairs of distinct Vars of one storage node that share a byte
SharingPairs ==
    {w \in (DOMAIN var) \X (DOMAIN var) :
        /\ w[1] < w[2]
        /\ var[w[1]].node > 0
        /\ var[w[1]].node = var[w[2]].node
        /\ bytesof(w[1]) \cap bytesof(w[2]) # {}}

\* C12: after pass 1, two distinct Vars of the same storage node whose
\* byte ranges overlap are both marked address-escaped (in whatever order
\* the references appeared), and neither gets a region.
C12OverlappingVarsDisabled ==
    pass1done =>
        \A w \in SharingPairs :
            /\ var[w[1]].addr # 0
            /\ var[w[2]].addr # 0
            /\ pc # "fatal" =>
                  /\ {w[1], w[2]} \subseteq sets.addrs
                  /\ \A k \in DOMAIN region : region[k].varno \notin {w[1], w[2]}

\* regopt returned on a chain that referred to the upper half of the first
\* word of y before it referred to the whole word
C12Witness ==
    /\ pc = "done"
    /\ missed = {}
    /\ \E w \in SharingPairs : var[w[1]].offset > var[w[2]].offset

(***************************************************************************)
(* Specification of regopt over chains with calls that refer to a          *)
(* package-level variable, a result, an incoming parameter, a local the    *)
(* front end flagged addrtaken and the two-word local y with its VARDEF.   *)
(***************************************************************************)
AlphabetProp ==
    {Ins("AMOVL", Const(1), VarG),
     Ins("AMOVL", Const(1), VarRes),
     Ins("AMOVL", VarP, Register(REG_AX)),
     Ins("AMOVL", Const(1), VarZ),
     Ins("AMOVL", VarY0, Register(REG_AX)),
     Ins("AVARDEF", zaddr, VarY0),
     Ins("ACALL", zaddr, Func("f"))}

InitProp ==
    /\ pc = "emit"
    /\ debug = nodebug
    /\ hasdefer = FALSE
    /\ arch = amd64
    /\ alphabet = AlphabetProp
    /\ input = <<Text>>
    /\ InitIdle
    /\ InitNoLink

SpecProp == InitProp /\ [][NextRegopt]_vars

\* pass 3 is under way or has just ended, and prop has processed node r
\* in the current sweep
propped(r) ==
    /\ pc \in {"loop11", "loop2"}
    /\ iters.loop2 = 0
    /\ reg[r].active # 0

\* the nodes prop has processed whose instruction is one of ops
proppednodes(ops) ==
    {r \in DOMAIN reg : propped(r) /\ prog[reg[r].prog].as \in ops}

\* the variables node r sets or uses itself
own(r) == reg[r].set \cup reg[r].use1 \cup reg[r].use2

\* C13 as stated: when prop processes a RET node both ref and cal are
\* reset to the empty set before the node's own bits are applied, so
\* calbehind of every RET node is empty and refbehind of every RET node is
\* exactly the RET's own uses.
C13RetClearsBoth ==
    \A r \in proppednodes({"ARET"}) :
        /\ reg[r].refbehind = reg[r].use1 \cup reg[r].use2
        /\ reg[r].calbehind = {}

\* C13, amended: when prop processes a RET node, ref is reset to the empty
\* set and cal is set to externs | ovar (the package-level variables and
\* the results of the function) before the node's own bits are applied,
\* so refbehind of every RET node is exactly the RET's own uses and
\* calbehind of every RET node is externs | ovar minus the RET's own bits.
C13RetKeepsExternsAndResults ==
    \A r \in proppednodes({"ARET"}) :
        /\ reg[r].refbehind = reg[r].use1 \cup reg[r].use2
        /\ reg[r].calbehind = (sets.externs \cup sets.ovar) \ own(r)

\* pass 3 has ended on a chain that refers to a package-level variable and
\* to a result, and both are in the calbehind of the RET
C13Witness ==
    /\ pc = "loop2"
    /\ \E r \in proppednodes({"ARET"}) :
          /\ sets.externs \cap reg[r].calbehind # {}
          /\ sets.ovar \cap reg[r].calbehind # {}

\* the CALL nodes prop has processed (calls that return)
callnodes ==
    {r \in proppednodes({"ACALL"}) : ~noreturn(prog[reg[r].prog])}

\* S with every Var of every storage node that has a Var in S
nodeclosure(S) ==
    S \cup {j \in DOMAIN var :
               /\ var[j].node > 0
               /\ \E i \in S \cap DOMAIN var : var[i].node = var[j].node}

adjustedref(r) ==
    IF r \in callnodes \cup proppednodes({"ATEXT", "ARET"}) THEN {}
    ELSE reg[r].refahead

\* cal after the CALL/TEXT/RET adjustment at a node prop has processed,
\* from the refahead and calahead the node is left with
adjustedcal(r) ==
    IF r \in callnodes
    THEN nodeclosure(reg[r].calahead \cup reg[r].refahead \cup sets.externs
                       \cup sets.ivar \cup reg[r].act)
    ELSE IF r \in proppednodes({"ATEXT"}) THEN {}
    ELSE IF r \in proppednodes({"ARET"}) THEN sets.externs \cup sets.ovar
    ELSE reg[r].calahead

\* C20: for every flow node processed by prop, with ref and cal being the
\* node's refahead and calahead after any CALL/TEXT/RET adjustment, the node
\* gets refbehind = (ref minus set) | use1 | use2 and calbehind = cal minus
\* (set | use1 | use2); a variable read or written by a node is never in
\* that node's calbehind, and at a TEXT node both ref and cal are emptied
\* first.
C20BehindFromAhead ==
    \A r \in DOMAIN reg :
        propped(r) =>
            /\ reg[r].refbehind =
                  (adjustedref(r) \ reg[r].set) \cup reg[r].use1
                     \cup reg[r].use2
            /\ reg[r].calbehind = adjustedcal(r) \ own(r)
            /\ reg[r].calbehind \cap own(r) = {}
            /\ prog[reg[r].prog].as = "ATEXT" =>
                  /\ reg[r].refbehind = reg[r].use1 \cup reg[r].use2
                  /\ reg[r].calbehind = {}

\* pass 3 has ended on a chain whose TEXT has a variable live after it, with
\* a node that sets a variable live after it and a node that uses a
\* variable that is in its calahead
C20Witness ==
    /\ pc = "loop2"
    /\ \E r \in proppednodes({"ATEXT"}) : reg[r].refahead # {}
    /\ \E r \in DOMAIN reg :
          propped(r) /\ reg[r].set \cap reg[r].refahead # {}
    /\ \E r \in DOMAIN reg :
          propped(r) /\ own(r) \cap reg[r].calahead # {}

\* the head of the nextinnode list of the storage node of Var j
headof(j) == nodeopt[var[j].node]

\* the sets the expansion may start from: any set of tracked Vars, with
\* or without a register bit
Seeds ==
    {c \cup g : c \in SUBSET (DOMAIN var \ REGBITS), g \in {{}, {0}}}

\* C15: right after the sibling expansion at a CALL node the across-call
\* live set is closed under the same-storage-node relation, whatever it
\* held before and in whatever order the Vars were created, also when the
\* head-of-list shortcut passes over a Var: the expansion of any set is
\* the set together with every Var of the storage nodes it touches, and
\* the calbehind of every CALL node prop has processed is closed.
C15ExpansionClosed ==
    /\ pc = "loop1" =>
          \A c \in Seeds : propexpand(M, c, 0) = nodeclosure(c)
    /\ \A r \in callnodes : nodeclosure(reg[r].calbehind) = reg[r].calbehind

\* pass 3 has ended on a chain with a CALL whose set held, before the
\* expansion, a Var that is not the head of its list together with the
\* head (the shortcut passes over it), and another CALL where the
\* expansion added a Var
C15Witness ==
    /\ pc = "loop2"
    /\ \E r \in callnodes :
          \E j \in (reg[r].calahead \cup reg[r].refahead) \ REGBITS :
              /\ headof(j) # j
              /\ headof(j) \in reg[r].calahead \cup reg[r].refahead
    /\ \E r \in callnodes :
          reg[r].calbehind \ (reg[r].calahead \cup reg[r].refahead) # {}

(***************************************************************************)
(* Specification of regopt over chains with code that cannot be reached    *)
(* and code that cannot reach a RET: returns and jumps inside the chain.   *)
(***************************************************************************)
AlphabetSweep ==
    {Ins("AMOVL", Register(REG_AX), VarX),
     Ins("AMOVL", VarX, Register(REG_AX)),
     Ins("ARET", zaddr, zaddr),
     Ins("AJMP", zaddr, ToLast),
     Ins("AJMP", zaddr, Branch(3))}

InitSweep ==
    /\ pc = "emit"
    /\ debug = nodebug
    /\ hasdefer = FALSE
    /\ arch = amd64
    /\ alphabet = AlphabetSweep
    /\ input = <<Text>>
    /\ InitIdle
    /\ InitNoLink

SpecSweep == InitSweep /\ [][NextRegopt]_vars

\* pass 3 has just ended
pass3ended == pc = "loop2" /\ iters.loop2 = 0

\* the nodes the function can reach from its entry
fromentry == ReachFrom(input, {1}, {})

\* the nodes from which some RET can be reached
toret ==
    {n \in DOMAIN input :
        \E k \in ReachFrom(input, {n}, {}) : input[k].as = "ARET"}

strippedsets(g) ==
    {g.set, g.use1, g.use2, g.refbehind, g.refahead, g.calbehind,
     g.calahead, g.regdiff, g.act}

\* no register pseudo-variable is left in the sets of any node, and none
\* is the variable of a region
noregvars ==
    /\ pc \in {"pass5", "pass6"} =>
          \A r \in DOMAIN reg : \A b \in strippedsets(reg[r]) :
              b \cap REGBITS = {}
    /\ pc \in {"pass6", "pass7", "done"} =>
          \A k \in DOMAIN region : region[k].varno >= NREGVAR

\* pass 4.5 leaves in regu the register bits of refbehind and set
regufilled ==
    pc = "pass45" =>
        \A r \in DOMAIN reg :
            reg'[r].regu = (reg[r].refbehind \cup reg[r].set) \cap REGBITS

\* C17: after pass 4.5 none of set, use1, use2, refbehind, refahead,
\* calbehind, calahead, regdiff, act of any flow node contains a bit of
\* the first NREGVAR (register) pseudo-variables, the node's regu is the
\* register bits that refbehind and set held before the stripping, and
\* no region of pass 5 has varno < NREGVAR.
C17RegisterBitsMovedToRegu == [](noregvars) /\ [][regufilled]_vars

\* the regions were sorted on a chain where a node that stores AX has AX
\* in its regu, from its refbehind and not from its set
C17Witness ==
    /\ pc = "pass6"
    /\ region # <<>>
    /\ \E r \in DOMAIN reg :
          /\ input[r].from.type = "TYPE_REG"
          /\ input[r].to.type = "TYPE_MEM"
          /\ reg[r].regu # {}

(***************************************************************************)
(* Specification of peep on register chains with additions of 1, an        *)
(* add-with-carry, and jumps.                                              *)
(***************************************************************************)
AlphabetCarry ==
    {Ins("AADDL", Const(1), Register(REG_AX)),
     Ins("AADDW", Const(1), Register(REG_CX)),
     Ins("AADCL", Const(0), Register(REG_BX)),
     Ins("AMOVL", Register(REG_BX), Register(REG_DX)),
     Ins("AJMP", zaddr, Branch(4)),
     Ins("AJNE", zaddr, Branch(2))}

InitCarry ==
    /\ pc = "emit"
    /\ debug = nodebug
    /\ hasdefer = FALSE
    /\ arch = amd64
    /\ alphabet = AlphabetCarry
    /\ input = <<Text>>
    /\ InitIdle
    /\ InitNoLink

SpecCarry == InitCarry /\ [][NextPeep]_vars

\* the instructions of pg that use, set or kill the carry bit
carryends(pg) ==
    {k \in DOMAIN pg :
        proginfo(pg[k]).flags \cap {"UseCarry", "SetCarry", "KillCarry"} # {}}

\* some instruction that can execute after instruction i, by falling
\* through or by a branch, uses the carry bit before any instruction sets
\* or kills it
carryneeded(pg, i) ==
    \E k \in ReachFrom(pg, flowsucc(pg, i), carryends(pg)) :
        "UseCarry" \in proginfo(pg[k]).flags

\* C18: peep does not turn an ADDL/ADDW/SUBL/SUBW of +1 or -1 into INC/DEC,
\* and elimshortmov does not widen ADDB/ADDW/SUBB/SUBW, when an instruction
\* that can execute after it reads the carry bit before any instruction
\* sets or kills it: such an instruction keeps its opcode and operands.
C18CarryPreserved ==
    pc \in {"peeped", "peeped2"} =>
        \A i \in DOMAIN peepin :
            (/\ peepin[i].as \in {"AADDB", "AADDW", "AADDL",
                                  "ASUBB", "ASUBW", "ASUBL"}
             /\ carryneeded(peepin, i))
                => prog[i] = peepin[i]

\* peep has run on a chain where it left an ADDW of 1 alone because the
\* carry is read after it, and turned an ADDL of 1 into INCL
C18Witness ==
    /\ pc = "peeped"
    /\ \E i \in DOMAIN peepin :
          /\ peepin[i].as = "AADDW"
          /\ carryneeded(peepin, i)
          /\ prog[i].as = "AADDW"
    /\ \E j \in DOMAIN peepin :
          /\ peepin[j].as = "AADDL"
          /\ prog[j].as = "AINCL"

(***************************************************************************)
(* Specification of regopt called for one function after another in one    *)
(* process: the globals keep what the call before left in them.            *)
(***************************************************************************)
AlphabetFirst ==
    {Ins("AADDL", Const(1), VarY0),
     Ins("AMOVL", VarX, Register(REG_AX))}

AlphabetNext ==
    {Ins("AADDL", Const(1), VarX),
     Ins("AMOVL", VarY4, Register(REG_AX)),
     Ins("ACALL", zaddr, Func("f"))}

InitAgain ==
    /\ pc = "emit"
    /\ debug = nodebug
    /\ hasdefer = FALSE
    /\ arch = amd64
    /\ alphabet = AlphabetFirst
    /\ input = <<Text>>
    /\ InitIdle
    /\ InitNoLink

\* regopt has returned; the next function is compiled, or regopt is next
\* called with a chain for which flowstart builds no graph
Reenter ==
    /\ pc = "done"
    /\ alphabet = AlphabetFirst \/ input = <<>>
    /\ alphabet' = AlphabetNext
    /\ \E nxt \in (IF input = <<>> THEN {<<Text>>} ELSE {<<Text>>, <<>>}) :
          input' = nxt
    /\ pc' = "emit"
    /\ iters' = [loop1 |-> 0, loop11 |-> 0, loop2 |-> 0]
    /\ UNCHANGED <<debug, hasdefer, arch, prog, reg, var, nodeopt, sets,
                   region, change, rgnnodes, peepin>>
    /\ unchangedLink

\* regopt on a chain without instructions: flowstart returns nil and
\* regopt returns right after the entry
RegoptNil ==
    /\ pc = "emit"
    /\ input = <<>>
    /\ Commit(regoptenter(M, <<>>, debug, hasdefer, arch))
    /\ pc' = "done"
    /\ UNCHANGED <<iters, peepin>>
    /\ unchangedEnv
    /\ unchangedLink

NextAgain == NextRegopt \/ Reenter \/ RegoptNil

SpecAgain == InitAgain /\ [][NextAgain]_vars

\* C19: what regopt does for a function does not depend on the functions
\* optimized before it in the process: when it has passed its entry the
\* Var table holds the zeroed register entries only, the sets are clear
\* and no node has a Var left from before (also after a call that
\* returned early on an empty graph); regions left from before are gone
\* when pass 5 has run; and what regopt leaves behind is what it leaves
\* behind in a process that has optimized nothing yet.
C19IndependentOfEarlierCalls ==
    /\ pc = "pass1" =>
          /\ var = regoptstart(input, debug, hasdefer, arch).var
          /\ sets = zsets
          /\ nodeopt = idle.nodeopt
    /\ pc = "pass6" =>
          \A k \in DOMAIN region :
              /\ region[k].varno \in DOMAIN var \ REGBITS
              /\ region[k].enter \in DOMAIN reg
    /\ returned => leftbehind \in regopt(input, debug, hasdefer, arch)

\* the second function is about to go through pass 5 while the region
\* list still holds regions of the first
C19Witness ==
    /\ pc = "pass5"
    /\ alphabet = AlphabetNext
    /\ region # <<>>
    /\ Len(input) > 2

(***************************************************************************)
(* Pass 4 on chains with loops, calls and unreachable code.                *)
(***************************************************************************)
AlphabetSynch ==
    {Ins("AMOVL", Const(1), VarX),
     Ins("AMOVL", VarX, Register(REG_AX)),
     Ins("ACALL", zaddr, Func("f")),
     Ins("AJNE", zaddr, Branch(2)),
     Ins("AJMP", zaddr, ToLast)}

InitSynch ==
    /\ pc = "emit"
    /\ debug = nodebug
    /\ hasdefer = FALSE
    /\ arch = amd64
    /\ alphabet = AlphabetSynch
    /\ input = <<Text>>
    /\ InitIdle
    /\ InitNoLink

SpecSynch == InitSynch /\ [][NextRegopt]_vars

\* the successors synch follows from node r
synchsucc(r) == {reg[r].s1, reg[r].s2} \ {0}

RECURSIVE synchfrom(_)
\* the nodes synch comes to from the nodes R
synchfrom(R) ==
    LET N == R \cup UNION {synchsucc(r) : r \in R}
    IN IF N = R THEN R ELSE synchfrom(N)

\* the nodes synch(firstr, zbits) comes to
synched == synchfrom({1})

\* pass 4 has reached its fixpoint
pass4ended == pc = "pass45"

\* the value that flows from node q on to its successors
flowson(q) == reg[q].regdiff \ STORE(reg[q])

\* the value that flows into node r from the nodes of Q before it
flowsin(r, Q) ==
    UNION {flowson(q) : q \in {q \in Q : r \in synchsucc(q)}}

\* regdiff of the nodes of N is the node's set with what flows in from the
\* nodes of N before it and is not loaded at the node, and nothing else
regdiffof(N) ==
    \A r \in N :
        /\ reg[r].set \subseteq reg[r].regdiff
        /\ flowsin(r, N) \ LOAD(reg[r]) \subseteq reg[r].regdiff
        /\ reg[r].regdiff \subseteq reg[r].set \cup flowsin(r, N)

\* a sweep of pass 4 clears no bit of regdiff
regdiffgrows ==
    pc = "loop2" =>
        \A r \in DOMAIN reg : reg[r].regdiff \subseteq reg'[r].regdiff

\* C21 as stated: at the pass-4 fixpoint, the regdiff of each node contains
\* every variable the node sets and every variable of the value flowing in
\* from a predecessor that is not freshly loaded at the node; the value
\* flowing on to the successors of a node has the store set of the node
\* removed; and during pass 4 a regdiff bit, once set, is never cleared.
C21RegdiffOfEachNode ==
    /\ [](pass4ended => regdiffof(DOMAIN reg))
    /\ [][regdiffgrows]_vars

\* C21, amended: at the pass-4 fixpoint, the regdiff of each node that can
\* be reached from the first node along s1 and s2 contains every variable
\* the node sets and every variable of the value flowing in from such a
\* predecessor that is not freshly loaded at the node, and nothing else;
\* the value flowing on to the successors of a node has the store set of
\* the node removed; during pass 4 a regdiff bit, once set, is never
\* cleared. (A node that cannot be reached is not visited by synch: its
\* regdiff stays empty whatever it sets.)
C21RegdiffOfReachedNodes ==
    /\ [](pass4ended => regdiffof(synched))
    /\ [][regdiffgrows]_vars

\* pass 4 has ended, after more than one sweep, on a chain with a loop
\* where a node has a variable in regdiff that it does not set, a node
\* with a variable in regdiff passes none on because it stores it, and a
\* node that cannot be reached sets a variable
C21Witness ==
    /\ pass4ended
    /\ iters.loop2 >= 2
    /\ \E r \in synched : reg[r].regdiff \ reg[r].set # {}
    /\ \E r \in synched : reg[r].regdiff \cap STORE(reg[r]) # {}
    /\ \E r \in DOMAIN reg \ synched : reg[r].set # {}


(***************************************************************************)
(* Pass 6 under register pressure, on the three kinds of target.           *)
(***************************************************************************)
Pressure == 7

framepointer == [amd64 EXCEPT !.framepointer_enabled = TRUE]
nacl == [amd64 EXCEPT !.nacl = TRUE]

AlphabetAlloc ==
    {Ins("AMOVL", Const(1), VarX),
     Ins("AMOVL", VarX, Register(REG_AX)),
     Ins("AMOVSD", FConst(1), VarF),
     Ins("AMOVSD", VarF, Register(REG_X0)),
     Ins("AMOVL", VarZ, VarX)}

\* the general registers but SP and BP, in pairs
PressureRegs ==
    <<REG_AX, REG_CX, REG_DX, REG_BX, REG_SI, REG_DI, REG_AX + 8,
      REG_AX + 9, REG_AX + 10, REG_AX + 11, REG_AX + 12, REG_AX + 13,
      REG_AX + 14, REG_R15>>

\* a variable that is live while every register of PressureRegs is
Pressed ==
    <<Text, Ins("AMOVL", Const(1), VarX)>>
    \o [i \in 1..Pressure |->
          Ins("ACMPL", Register(PressureRegs[2 * i - 1]),
                       Register(PressureRegs[2 * i]))]
    \o <<Ins("AMOVL", VarX, VarZ)>>

InitAlloc ==
    /\ pc = "emit"
    /\ debug = nodebug
    /\ hasdefer = FALSE
    /\ arch \in {amd64, framepointer, nacl}
    /\ alphabet = AlphabetAlloc
    /\ input \in {<<Text>>, Pressed}
    /\ InitIdle
    /\ InitNoLink

SpecAlloc == InitAlloc /\ [][NextRegopt]_vars

RECURSIVE pass6first(_, _)
\* the machine state after the first k iterations of the pass 6 loop
pass6first(m, k) == IF k = 0 THEN m ELSE pass6region(pass6first(m, k - 1), k)

\* the registers of the class of type et that arch lets allreg hand out
classof(et) ==
    IF et \in IntTypes
    THEN (REG_AX..REG_R15)
         \ (IF arch.nacl THEN {REG_BP, REG_R15}
            ELSE IF arch.framepointer_enabled THEN {REG_BP} ELSE {})
    ELSE IF et \in FloatTypes THEN REG_X0..REG_X15
    ELSE {}

\* the bit of register rn in a register set
regbit(rn) == IF rn >= REG_X0 THEN rn - REG_X0 + 16 ELSE rn - REG_AX

\* the used registers over the nodes paint2 went through from mk to w
collected(mk, w, bn) ==
    mk.sets.regbits
    \cup UNION {mk.reg[r].regu : r \in actset(w.m.reg, mk.reg, bn)}

\* what iteration k of the loop did, from the state mk before it
allocated(mk, k) ==
    LET rgn == mk.region[k]
        et == mk.var[rgn.varno].etype
        used == collected(mk, paint2(mk, rgn.enter, rgn.varno), rgn.varno)
        free == {rn \in classof(et) : regbit(rn) \notin used}
        done(after) ==
            LET regno == after.region[k].regno
            IN /\ regno # 0 => regno \in free /\ regno # REG_SP
               /\ free = {} => regno = 0
               /\ regno = 0 => after.prog = mk.prog
    IN Strict(done, pass6region(mk, k))

allocating(k) ==
    LET from(mk) == allocated(mk, k)
    IN Strict(from, pass6first(M, k - 1))

\* C22: allreg gives a region only a register of the class of its
\* variable's type that is outside the used-register set paint2 collected
\* over the region, never SP, never BP with frame pointers and never BP or
\* R15 under nacl; with no such register free regno stays 0 and the
\* instructions are left as they were
C22RegisterOfClassAndFree ==
    pc = "pass6" => \A k \in 1..Len(region) : allocating(k)

\* a region that found every register of its class in use, and on another
\* target one that got a register
C22NoneFree(k) ==
    LET from(mk) ==
          LET rgn == mk.region[k]
              used == collected(mk, paint2(mk, rgn.enter, rgn.varno), rgn.varno)
          IN {rn \in classof(mk.var[rgn.varno].etype) : regbit(rn) \notin used} = {}
    IN Strict(from, pass6first(M, k - 1))

C22Witness ==
    /\ pc = "pass6"
    /\ arch.nacl
    /\ \E k \in 1..Len(region) : C22NoneFree(k)


(***************************************************************************)
(* What one iteration of the pass 6 loop does to the chain.                *)
(***************************************************************************)
RECURSIVE splice(_, _, _)
\* the instructions linked in pg from i up to, and without, stop
splice(pg, i, stop) ==
    IF i = stop \/ i = 0 THEN <<>>
    ELSE <<pg[i]>> \o splice(pg, pg[i].link, stop)

\* ins moves the Var v from memory into register rn, or back
ofvar(a, v) ==
    /\ a.type = "TYPE_MEM"
    /\ a.name = v.name
    /\ a.node = v.node
    /\ a.offset = v.offset
    /\ a.etype = v.etype

loadof(ins, v, rn) == ofvar(ins.from, v) /\ ins.to = Register(rn)
storeof(ins, v, rn) == ins.from = Register(rn) /\ ofvar(ins.to, v)

\* the nodes of N that need a load, and those that need a store
needload(mk, N, bn) ==
    {r \in N : bn \in LOAD(mk.reg[r])
               /\ ~(bn \in mk.reg[r].set
                    /\ bn \notin (mk.reg[r].use1 \cup mk.reg[r].use2))}

needstore(mk, N, bn) ==
    {r \in N : bn \in STORE(mk.reg[r]) /\ bn \in mk.reg[r].regdiff}

\* the instruction of node r of mk, as it has to be after the region of bn
\* got register rn
rewritten(mk, r, bn, rn) ==
    LET g == mk.reg[r]
        p == mk.prog[g.prog]
    IN [from |-> IF bn \in g.use1 THEN addreg(p.from, rn) ELSE p.from,
        to |-> IF bn \in (g.use2 \cup g.set) THEN addreg(p.to, rn) ELSE p.to,
        as |-> p.as]

\* the chain after the iteration (pg1) against the chain before it, for
\* the region with nodes N of Var bn in register rn
replacedby(mk, pg1, N, bn, rn) ==
    LET pg0 == mk.prog
        v == mk.var[bn]
        L == needload(mk, N, bn)
        S == needstore(mk, N, bn)
        nodeof == [r \in N |-> mk.reg[r].prog]
        after(r) == splice(pg1, pg1[nodeof[r]].link, pg0[nodeof[r]].link)
    IN /\ Len(pg1) = Len(pg0) + Cardinality(L) + Cardinality(S)
       /\ \A r \in N :
             /\ pg1[nodeof[r]].from = rewritten(mk, r, bn, rn).from
             /\ pg1[nodeof[r]].to = rewritten(mk, r, bn, rn).to
             /\ pg1[nodeof[r]].as = pg0[nodeof[r]].as
             /\ Len(after(r)) = (IF r \in L THEN 1 ELSE 0)
                                + (IF r \in S THEN 1 ELSE 0)
             /\ r \in L => \E j \in 1..Len(after(r)) : loadof(after(r)[j], v, rn)
             /\ r \in S => \E j \in 1..Len(after(r)) : storeof(after(r)[j], v, rn)
       /\ \A i \in (1..Len(pg0)) \ {nodeof[r] : r \in N} : pg1[i] = pg0[i]

\* iteration k of the loop, from the state mk before it
committed(mk, k) ==
    LET rgn == mk.region[k]
        N == actset(paint2(mk, rgn.enter, rgn.varno).m.reg, mk.reg, rgn.varno)
        done(m1) ==
            m1.region[k].regno # 0
            => replacedby(mk, m1.prog, N, rgn.varno, m1.region[k].regno)
    IN Strict(done, pass6region(mk, k))

committing(k) ==
    LET from(mk) == committed(mk, k)
    IN Strict(from, pass6first(M, k - 1))

\* C23: for a region that got register R, paint3 rewrites every operand
\* referencing the variable at a node of the region to R, splices a load
\* right after each node of the region where the variable is in refahead
\* and not in refbehind (unless the node writes it without reading it) and
\* a store right after each node where it is in calahead, not in calbehind
\* and in regdiff; it inserts nothing else and changes no other instruction
C23RegionRewritten ==
    pc = "pass6" => \A k \in 1..Len(region) : committing(k)

\* a region committed with a load, a store and a rewritten operand
C23Committed(mk, k) ==
    LET rgn == mk.region[k]
        N == actset(paint2(mk, rgn.enter, rgn.varno).m.reg, mk.reg, rgn.varno)
    IN /\ needload(mk, N, rgn.varno) # {}
       /\ needstore(mk, N, rgn.varno) # {}
       /\ pass6region(mk, k).region[k].regno # 0

C23Witness ==
    /\ pc = "pass6"
    /\ \E k \in 1..Len(region) :
          LET from(mk) == C23Committed(mk, k)
          IN Strict(from, pass6first(M, k - 1))


(***************************************************************************)
(* Pass 5 on a chain that is the body of deeply nested loops.              *)
(***************************************************************************)
Outer == 1092

AlphabetCost ==
    {Ins("AMOVL", Const(1), VarX),
     Ins("AADDL", Const(1), VarX),
     Ins("AMOVL", VarX, Register(REG_AX)),
     Ins("ACALL", zaddr, Func("f")),
     Ins("AJNE", zaddr, Branch(2))}

InitCost ==
    /\ pc = "emit"
    /\ debug = nodebug
    /\ hasdefer = FALSE
    /\ arch = amd64
    /\ alphabet = AlphabetCost
    /\ input = <<Text>>
    /\ InitIdle
    /\ InitNoLink

\* the weights of a chain that is the body of d loops, one inside the
\* other, whose closing branches do not mention its variables and are left
\* out of the chain: each loop gives every node LOOP more
enclosed(g, d) == [i \in 1..Len(g) |-> [g[i] EXCEPT !.loop = @ + LOOP * d]]

Pass2Enclosed ==
    \E d \in {0, Outer} :
        Step("pass2", "pass25", [pass2(M) EXCEPT !.reg = enclosed(@, d)])

NextCost ==
    \/ Emit \/ Regopt \/ Pass1 \/ Pass2Enclosed \/ Pass25 \/ Loop1 \/ Loop11
    \/ Loop2 \/ Pass45 \/ Pass5 \/ Pass6 \/ Pass7

SpecCost == InitCost /\ [][NextCost]_vars

RECURSIVE weighted(_, _)
\* the sum of n[r] * loop of r over the nodes r of N
weighted(N, n) ==
    IF N = {} THEN 0
    ELSE LET r == CHOOSE x \in N : TRUE
         IN n[r] * reg[r].loop + weighted(N \ {r}, n)

\* node r was a NOP when pass 5 painted the region entered at node e: the
\* chain came with a NOP there, or pass 5 had excised the instruction, which
\* it does node by node before it paints the regions entered at the node
nopthen(r, e) ==
    /\ prog[reg[r].prog].as = "ANOP"
    /\ r <= e \/ input[reg[r].prog].as = "ANOP"

\* the references paint1 gives credit for at node r, for Var bn
credits(r, e, bn) ==
    IF nopthen(r, e) THEN 0
    ELSE (IF bn \in reg[r].use1 THEN 1 ELSE 0)
         + (IF bn \in (reg[r].use2 \cup reg[r].set) THEN 1 ELSE 0)

\* the net value of the region with nodes N of Var bn entered at e
netvalue(N, e, bn) ==
    CREF * weighted(N, [r \in N |-> credits(r, e, bn)])
    - CLOAD * weighted(needload(M, N, bn), [r \in N |-> 1])
    - CLOAD * weighted(needstore(M, N, bn), [r \in N |-> 1])

\* the nodes of region k, once pass 5 is over
nodesof(k) ==
    actset(paint2(M, region[k].enter, region[k].varno).m.reg, reg,
           region[k].varno)

costis(k) ==
    LET of(N) ==
          /\ region[k].cost = netvalue(N, region[k].enter, region[k].varno)
          /\ region[k].cost > 0
    IN Strict(of, nodesof(k))

\* C24: every region recorded in pass 5 carries as cost the net value
\* paint1 accumulated for it (CREF times the loop weight per reference at
\* nodes other than NOPs, minus CLOAD times the loop weight per load and per
\* store needed), and that cost is positive, however large the value
C24CostIsNetValue ==
    pc = "pass6" => \A k \in 1..Len(region) : costis(k)


(***************************************************************************)
(* copyprop on chains with branches: the queries peep starts with.         *)
(***************************************************************************)
AlphabetCopy ==
    {Ins("AMOVL", Register(REG_AX), Register(REG_BX)),
     Ins("AADDL", Register(REG_BX), Register(REG_CX)),
     Ins("AMOVL", Const(5), Register(REG_AX)),
     Ins("AADDL", Register(REG_CX), Register(REG_BX)),
     Ins("AJNE", zaddr, Branch(3))}

InitCopy ==
    /\ pc = "emit"
    /\ debug = nodebug
    /\ hasdefer = FALSE
    /\ arch = amd64
    /\ alphabet = AlphabetCopy
    /\ input = <<Text>>
    /\ InitIdle
    /\ InitNoLink

SpecCopy == InitCopy /\ [][NextPeep]_vars

\* the peep state the loop1 of peep starts from
peepentered == peepconprop(elimshortmov(peepstart(prog), 1), 1)

\* the nodes of ps that hold a move between two different registers
copies(ps) ==
    {r \in DOMAIN ps.reg :
        LET p == ps.prog[ps.reg[r].prog]
        IN /\ p.as \in {"AMOVL", "AMOVSS", "AMOVSD"}
           /\ regtyp(p.to) /\ regtyp(p.from)
           /\ p.from.reg # p.to.reg}

\* instruction p reads register v, writes register v
readsreg(p, v) ==
    \/ "LeftRead" \in proginfo(p).flags /\ p.from = v
    \/ "RightRead" \in proginfo(p).flags /\ p.to = v

setsreg(p, v) == "RightWrite" \in proginfo(p).flags /\ p.to = v

\* a node without a unique predecessor
merge(ps, n) ==
    Cardinality((IF ps.reg[n].p1 # 0 THEN {ps.reg[n].p1} ELSE {})
                \cup SeqRange(ps.reg[n].p2)) # 1

\* where a path that comes to node n goes on; late tells whether the path
\* went through a merge point or a write of v1 before n
onward(ps, v1, v2, w) ==
    LET n == w[1]
        p == ps.prog[ps.reg[n].prog]
        late == w[2] \/ merge(ps, n) \/ setsreg(p, v1)
    IN IF setsreg(p, v2) THEN {}
       ELSE {<<s, late>> : s \in {ps.reg[n].s1, ps.reg[n].s2} \ {0}}

RECURSIVE pathsfrom(_, _, _, _)
\* the <<node, late>> that the paths from the pairs W come to before v2 is
\* overwritten
pathsfrom(ps, v1, v2, W) ==
    LET N == W \cup UNION {onward(ps, v1, v2, w) : w \in W}
    IN IF N = W THEN W ELSE pathsfrom(ps, v1, v2, N)

\* the reads of v2 on the paths from the move at r0: <<node, late>>
readsafter(ps, r0) ==
    LET p0 == ps.prog[ps.reg[r0].prog]
    IN {w \in pathsfrom(ps, p0.from, p0.to, {<<ps.reg[r0].s1, FALSE>>}) :
           readsreg(ps.prog[ps.reg[w[1]].prog], p0.to)}

\* every read of v2 after the move at r0 of ps is early and is, in ps1, a
\* read of v1
allreplaced(ps, ps1, r0) ==
    LET p0 == ps.prog[ps.reg[r0].prog]
    IN \A w \in readsafter(ps, r0) :
          LET p == ps.prog[ps.reg[w[1]].prog]
              p1 == ps1.prog[ps.reg[w[1]].prog]
          IN /\ ~w[2]
             /\ ~merge(ps, w[1])
             /\ ~readsreg(p1, p0.to)
             /\ p.from = p0.to => p1.from = p0.from
             /\ p1.to = p.to /\ p1.as = p.as

copysafe(ps, r0) ==
    LET of(c) == c.ok = 1 => allreplaced(ps, c.ps, r0)
    IN Strict(of, copyprop(ps, r0))

\* C25: copyprop lets peep excise MOV v1,v2 only if on every path from the
\* move each read of v2 before the next write of v2 comes before any write
\* of v1 and before any merge point and has been replaced by a read of v1
C25ExcisedOnlyIfReplaced ==
    pc = "peep" =>
        LET all(ps) == \A r0 \in copies(ps) : copysafe(ps, r0)
        IN Strict(all, peepentered)

\* a move that copyprop lets go, with a read replaced, and a move it keeps
\* because of a read at a merge point
C25Cases(ps) ==
    /\ \E r0 \in copies(ps) :
          /\ copyprop(ps, r0).ok = 1
          /\ readsafter(ps, r0) # {}
    /\ \E r0 \in copies(ps) :
          /\ copyprop(ps, r0).ok = 0
          /\ \E w \in readsafter(ps, r0) : merge(ps, w[1])

C25Witness ==
    /\ pc = "peep"
    /\ Strict(C25Cases, peepentered)


(***************************************************************************)
(* The nodes one copyprop query goes through, on chains with loops.        *)
(***************************************************************************)
AlphabetQuery ==
    {Ins("AMOVL", Register(REG_AX), Register(REG_BX)),
     Ins("AMOVL", Const(5), Register(REG_CX)),
     Ins("AADDL", Register(REG_BX), Register(REG_CX)),
     Ins("AJNE", zaddr, ToLast),
     Ins("AJNE", zaddr, Branch(2))}

InitQuery ==
    /\ pc = "emit"
    /\ debug = nodebug
    /\ hasdefer = FALSE
    /\ arch = amd64
    /\ alphabet = AlphabetQuery
    /\ input = <<Text>>
    /\ InitIdle
    /\ InitNoLink

SpecQuery == InitQuery /\ [][NextPeep]_vars

\* no element comes twice in the sequence q
once(q) == \A i, j \in DOMAIN q : q[i] = q[j] => i = j

\* the times n comes in the sequence q
times(q, n) == Cardinality({i \in DOMAIN q : q[i] = n})

\* the query of the move at r0 of ps examined no node twice
examinedonce(ps, r0) ==
    LET of(c) == once(c.ps.trail)
    IN Strict(of, copyprop(ps, r0))

\* C26 as stated: every copyprop query ends, and within one query copy1
\* examines no flow node more than once
C26NoNodeExaminedTwice ==
    pc = "peep" =>
        LET all(ps) == \A r0 \in copies(ps) : examinedonce(ps, r0)
        IN Strict(all, peepentered)

\* the query of the move at r0 of ps set the mark on no node twice, and
\* examined a node at most once for each node it set the mark on
enteredonce(ps, r0) ==
    LET of(c) ==
          /\ once(c.ps.entered)
          /\ \A n \in DOMAIN ps.reg :
                times(c.ps.trail, n) <= Len(c.ps.entered)
          /\ \A i \in DOMAIN c.ps.entered :
                c.ps.reg[c.ps.entered[i]].active = c.ps.gactive
          /\ c.ps.entered # <<>> /\ c.ps.entered[1] = ps.reg[r0].s1
          /\ c.ps.trail # <<>> /\ c.ps.trail[1] = ps.reg[r0].s1
    IN Strict(of, copyprop(ps, r0))

\* C26: every copyprop query ends; it starts, whatever earlier queries
\* marked, by examining the successor of the move; within one query copy1
\* passes its test of the mark at most once for each flow node, and its
\* loop examines a node at most once for each node so marked
C26EnteredOncePerNode ==
    pc = "peep" =>
        LET all(ps) == \A r0 \in copies(ps) : enteredonce(ps, r0)
        IN Strict(all, peepentered)

\* a query on a chain with a loop in which a node was examined twice
C26Twice(ps) ==
    \E r0 \in copies(ps) :
        /\ ~once(copyprop(ps, r0).ps.trail)
        /\ \E n \in DOMAIN ps.reg : ps.reg[n].s2 # 0 /\ ps.reg[n].s2 <= n

C26Witness ==
    /\ pc = "peep"
    /\ Strict(C26Twice, peepentered)


(***************************************************************************)
(* Pass 2.5 on chains with VARDEF and VARKILL of the two-word local y,     *)
(* calls and branches.                                                     *)
(***************************************************************************)
AlphabetVardef ==
    {Ins("AVARDEF", zaddr, VarY0),
     Ins("AVARKILL", zaddr, VarY0),
     Ins("AMOVL", Const(1), VarY4),
     Ins("ACALL", zaddr, Func("f")),
     Ins("ACALL", zaddr, Func("runtime.panicindex")),
     Ins("AJNE", zaddr, Branch(3))}

InitVardef ==
    /\ pc = "emit"
    /\ debug = nodebug
    /\ hasdefer = FALSE
    /\ arch = amd64
    /\ alphabet = AlphabetVardef
    /\ input = <<Text>>
    /\ InitIdle
    /\ InitNoLink

SpecVardef == InitVardef /\ [][NextRegopt]_vars

\* pass 2.5 is over and pass 5 has not cleared act yet
pass25ended == pc \in {"loop1", "loop11", "loop2", "pass45", "pass5"}

\* the instruction of node x
insof(x) == prog[reg[x].prog]

\* the nodes with a VARDEF of a fat variable
vardefs ==
    {d \in DOMAIN reg :
        /\ insof(d).as = "AVARDEF"
        /\ insof(d).to.node # 0
        /\ Node[insof(d).to.node].fat}

\* the tracked Vars of storage node n
varsof(n) == {j \in DOMAIN var : j >= NREGVAR /\ var[j].node = n}

\* the nodes a path goes on to from x: none after a CALL, and never a
\* VARKILL of n
defsucc(x, n) ==
    IF insof(x).as = "ACALL" THEN {}
    ELSE {s \in {reg[x].s1, reg[x].s2} \ {0} :
             ~(insof(s).as = "AVARKILL" /\ insof(s).to.node = n)}

RECURSIVE defreach(_, _)
\* the nodes on the forward paths from the nodes S, up to and with the
\* first CALL and without the first VARKILL of n
defreach(S, n) ==
    LET N == S \cup UNION {defsucc(x, n) : x \in S}
    IN IF N = S THEN S ELSE defreach(N, n)

\* the Vars node x has from the VARDEFs that reach it
fromvardefs(x) ==
    UNION {varsof(insof(d).to.node) :
             d \in {e \in vardefs : x \in defreach({e}, insof(e).to.node)}}

\* act after pass 2.5
actfromvardefs ==
    pass25ended => \A x \in DOMAIN reg : reg[x].act = fromvardefs(x)

\* C27 as stated: after pass 2.5 every node on a forward path from a VARDEF
\* of a fat variable with tracked Vars, up to and with the first CALL and
\* short of a VARKILL of the variable, has the Vars of the variable in its
\* act set, and no other node has them; prop adds the act set of a CALL
\* node to the across-call live set
C27ActAddedAtEveryCall ==
    /\ actfromvardefs
    /\ \A r \in proppednodes({"ACALL"}) :
          reg[r].act \ own(r) \subseteq reg[r].calbehind

\* C27: after pass 2.5 every node on a forward path from a VARDEF of a fat
\* variable with tracked Vars, up to and with the first CALL and short of
\* a VARKILL of the variable, has the Vars of the variable in its act set,
\* and no other node has them; prop adds the act set of a CALL node to the
\* across-call live set unless the call is one that does not return
C27ActAddedAtReturningCalls ==
    /\ actfromvardefs
    /\ \A r \in callnodes : reg[r].act \ own(r) \subseteq reg[r].calbehind
    /\ \A r \in proppednodes({"ACALL"}) \ callnodes :
          reg[r].calbehind = reg[r].calahead \ own(r)

\* pass 3 has ended on a chain where a VARDEF of y reaches a CALL beyond a
\* branch, a node after the CALL does not have y from it, and a VARKILL
\* stops it on another path
C27Witness ==
    /\ pc = "loop2"
    /\ \E d \in vardefs, r \in callnodes :
          /\ reg[r].act # {}
          /\ r \in defreach({d}, NodeY)
          /\ r > d + 1
          /\ \E x \in DOMAIN reg : x > r /\ reg[x].act = {}
    /\ \E k \in DOMAIN reg :
          /\ insof(k).as = "AVARKILL"
          /\ \E x \in DOMAIN reg : reg[x].act # {} /\ k \in {reg[x].s1, reg[x].s2}


(***************************************************************************)
(* The nodes paint1, paint2 and paint3 go through for one region.          *)
(***************************************************************************)
AlphabetPaint ==
    {Ins("AMOVL", Const(1), VarX),
     Ins("AADDL", Const(1), VarX),
     Ins("AMOVL", VarX, Register(REG_AX)),
     Ins("AJNE", zaddr, Branch(3)),
     Ins("AJMP", zaddr, ToLast)}

\* the chain Pressed, with x set and read once more after that
PressedTwice ==
    Pressed \o <<Ins("AMOVL", Const(1), VarX),
                 Ins("AMOVL", VarX, Register(REG_AX))>>

InitPaint ==
    /\ pc = "emit"
    /\ debug = nodebug
    /\ hasdefer = FALSE
    /\ arch \in {amd64, nacl}
    /\ alphabet = AlphabetPaint
    /\ input \in {<<Text>>, PressedTwice}
    /\ InitIdle
    /\ InitNoLink

SpecPaint == InitPaint /\ [][NextRegopt]_vars

\* paint2 for the region rgn, from the state mk of the pass 6 loop: it
\* clears the act bit on the nodes paint1 set it on and on no other, leaves
\* every other bit, and collects the registers of each of these nodes
cleared(mk, rgn) ==
    LET of(w) ==
          /\ actset(w.m.reg, mk.reg, rgn.varno) = rgn.nodes
          /\ \A n \in DOMAIN mk.reg :
                w.m.reg[n].act
                   = mk.reg[n].act \ (IF n \in rgn.nodes THEN {rgn.varno} ELSE {})
          /\ \A n \in rgn.nodes : mk.reg[n].regu \subseteq w.vreg
    IN Strict(of, paint2(mk, rgn.enter, rgn.varno))

\* the iteration for region k, from the state mk: when the region gets a
\* register paint3 sets the act bit again on the nodes of the region and
\* on no other, and changes no instruction of another node
repainted(mk, k) ==
    LET rgn == mk.region[k]
        of(m1) ==
          /\ \A n \in DOMAIN mk.reg :
                m1.reg[n].act
                   = IF m1.region[k].regno # 0 THEN mk.reg[n].act
                     ELSE mk.reg[n].act
                            \ (IF n \in rgn.nodes THEN {rgn.varno} ELSE {})
          /\ \A n \in DOMAIN mk.reg \ rgn.nodes :
                /\ m1.prog[mk.reg[n].prog].from = mk.prog[mk.reg[n].prog].from
                /\ m1.prog[mk.reg[n].prog].to = mk.prog[mk.reg[n].prog].to
          /\ \A n \in rgn.nodes : rgn.varno \in mk.reg[n].act
    IN Strict(of, pass6region(mk, k))

samenodes(k) ==
    LET from(mk) == cleared(mk, mk.region[k]) /\ repainted(mk, k)
    IN Strict(from, pass6first(M, k - 1))

\* C28: for every recorded region paint2 and paint3 go through exactly the
\* nodes on which paint1 set the act bit for the region: paint2 clears the
\* bit on precisely those nodes, paint3 sets it again on precisely those,
\* also when the variable has several regions or an earlier region was
\* skipped, and the registers paint2 collects cover every node paint3
\* rewrites
C28SameNodesPainted ==
    pc = "pass6" => \A k \in 1..Len(region) : samenodes(k)

\* two regions of one variable, the earlier one skipped and the later one
\* given a register
C28Witness ==
    /\ pc = "pass7"
    /\ \E j, k \in 1..Len(region) :
          /\ j < k
          /\ region[j].varno = region[k].varno
          /\ region[j].regno = 0
          /\ region[k].regno # 0
          /\ region[j].nodes # {}
          /\ region[k].nodes # {}


(***************************************************************************)
(* Pass 5 on instructions that write more than one tracked variable.       *)
(***************************************************************************)
AlphabetDead ==
    {Ins("AXCHGL", Register(REG_AX), VarG),
     Ins("AXCHGL", Register(REG_AX), VarRes),
     Ins("AMOVL", Const(1), VarG),
     Ins("AMOVL", Const(1), VarRes),
     Ins("AMOVL", VarX, VarG),
     Ins("AMOVL", Const(1), VarX)}

InitDead ==
    /\ pc = "emit"
    /\ debug = nodebug
    /\ hasdefer = FALSE
    /\ arch = amd64
    /\ alphabet = AlphabetDead
    /\ input = <<Text>>
    /\ InitIdle
    /\ InitNoLink

SpecDead == InitDead /\ [][NextRegopt]_vars

\* what node n writes that is needed after it: referenced ahead, live at
\* a call or a return ahead, or address-escaped
needed(n) ==
    reg[n].set \cap (reg[n].refahead \cup reg[n].calahead \cup sets.addrs)

\* the nodes whose instruction pass 5 turns into a NOP
excisedby(m1) ==
    {n \in DOMAIN reg : /\ prog[reg[n].prog].as # "ANOP"
                        /\ m1.prog[reg[n].prog].as = "ANOP"}

\* node n exchanges a register with a global or a result parameter
exchanges(n) ==
    /\ prog[reg[n].prog].as = "AXCHGL"
    /\ prog[reg[n].prog].from.type = "TYPE_REG"
    /\ doregbits(prog[reg[n].prog].from.reg) \subseteq reg[n].regu
    /\ reg[n].set \cap (sets.externs \cup sets.ovar) # {}

\* C29: pass 5 excises an instruction only if nothing it writes is needed
\* afterwards: an instruction that writes a tracked variable that is in
\* refahead or calahead at its node or is address-escaped is not excised,
\* even if it also writes a variable that is dead; so a store to a global
\* or to a result parameter that reaches a RET is not excised
C29ExcisedOnlyIfNothingNeeded ==
    LET of(m1) == \A n \in excisedby(m1) : needed(n) = {}
    IN pc = "pass5" => Strict(of, pass5(M))


\* pass 5 excised a store to a variable that is dead and kept an exchange
\* of a register, dead after it, with a global or a result parameter that
\* reaches the RET
C29Witness ==
    /\ pc = "pass6"
    /\ \E n \in DOMAIN reg :
          /\ prog[reg[n].prog].as = "ANOP"
          /\ reg[n].refset = 1
    /\ \E n \in DOMAIN reg :
          /\ exchanges(n)
          /\ reg[n].set \cap reg[n].calahead # {}
          /\ prog[reg[reg[n].s1].prog].as = "ARET"


(***************************************************************************)
(* The chain after the elimination of NOPs.                                *)
(***************************************************************************)
AlphabetNops ==
    {Ins("AMOVL", Const(1), VarX),
     Ins("AMOVL", VarX, Register(REG_AX)),
     Ins("AMOVL", Const(1), VarG),
     Ins("AJNE", zaddr, Branch(2)),
     Ins("AJNE", zaddr, Branch(3))}

InitNops ==
    /\ pc = "emit"
    /\ debug = nodebug
    /\ hasdefer = FALSE
    /\ arch = amd64
    /\ alphabet = AlphabetNops
    /\ input = <<Text>>
    /\ InitIdle
    /\ InitNoLink

SpecNops == InitNops /\ [][NextRegopt]_vars

\* the chain pg1 is the chain of pg without its NOPs after firstp, in the
\* same order
nopsunlinked(pg, pg1) ==
    LET kept(i) == i = 1 \/ pg[i].as # "ANOP"
        linked(ch) == ch = SelectSeq(Chain(pg), kept)
    IN Strict(linked, Chain(pg1))

\* every branch of the chain pg1 points to the first instruction at or
\* after its target in pg that is not a NOP, and this is an instruction of
\* the chain
branchesmoved(pg, pg1) ==
    LET on(ch) ==
          \A i \in 1..Len(ch) :
             pg1[ch[i]].to.type = "TYPE_BRANCH"
                => /\ pg1[ch[i]].to.branch # 0
                   /\ pg1[pg1[ch[i]].to.branch].as # "ANOP"
                   /\ InSeq(ch, pg1[ch[i]].to.branch)
                   /\ pg1[ch[i]].to.branch = skipnops(pg, pg[ch[i]].to.branch)
    IN Strict(on, Chain(pg1))

nopseliminated(pg) ==
    LET from(pg1) ==
          /\ nopsunlinked(pg, pg1)
          /\ branchesmoved(pg, pg1)
          /\ \A i \in DOMAIN pg : pg1[i].as = pg[i].as
    IN Strict(from, elimnops(pg, 1))

\* C30: after the loop that eliminates NOPs no instruction linked after
\* firstp is a NOP, every other instruction is still linked, in the order
\* it had, and every branch operand points to an instruction that is not a
\* NOP and is linked in the chain, never to a NOP that was removed and
\* never to nothing
C30NopsEliminated ==
    LET after(m) == nopseliminated(m.prog)
    IN pc = "pass7" => Strict(after, pass7(M))

\* a branch to the second instruction, which was excised, now points
\* beyond it, and the chain has lost the NOP
C30Witness ==
    /\ pc = "done"
    /\ Len(prog) >= 4
    /\ prog[2].as = "ANOP"
    /\ ~InSeq(Chain(prog), 2)
    /\ \E i \in 3..Len(prog) :
          /\ InSeq(Chain(prog), i)
          /\ prog[i].as = "AJNE"
          /\ prog[i].to.branch = skipnops(prog, 2)
          /\ prog[i].to.branch > 2
          /\ \E j \in 3..Len(prog) : j # i /\ prog[j].as = "ANOP"

====
